---- MODULE Spec2Model ----
(***************************************************************************)
(* A model of the ASR scoring core of VoiceLoop (evals/voice_evals/asr):   *)
(* wer.py, saer.py, semascore.py and asd.py.                               *)
(*                                                                         *)
(* Texts are sequences of one-character strings.  Real numbers are exact   *)
(* rationals <<n, d>> in lowest terms with d > 0; <<0, 0>> is NaN (every   *)
(* ordered comparison with it is false, as for an IEEE float).  A caller   *)
(* is at pc = "idle", makes one call of a public function (the whole call  *)
(* is one step) and is then at pc = "done" with the outcome in ret and the *)
(* external steps the call made, in order, in trace.                       *)
(***************************************************************************)
EXTENDS Integers, Sequences, FiniteSets, TLC

VARIABLES
  jiwer_installed,  \* whether `import jiwer` succeeds in this process
  _labse_cache,     \* saer._labse_cache: the devices a LaBSE model is cached for
  _bert_cache,      \* semascore._bert_cache (asd imports the same dict)
  pc,               \* "idle" | "done"
  call,             \* the arguments of the call in progress
  ret,              \* its outcome
  trace,            \* the external steps it made, in order
  embedded,         \* what the embedding provider returned to it
  locals            \* the local lists of the function when it returned

vars == <<jiwer_installed, _labse_cache, _bert_cache, pc, call, ret, trace, embedded, locals>>

(***************************************************************************)
(* Bounds of the model.                                                    *)
(***************************************************************************)
MaxWords == 3
MaxTokens == 2
MaxCells == 6
MaxChars == 4
MaxStripWords == 4
MaxAlignWords == 2
MaxPairs == 2
MaxCalls == 2

(***************************************************************************)
(* Exact rational arithmetic.                                              *)
(***************************************************************************)
Abs(x) == IF x < 0 THEN -x ELSE x

RECURSIVE GCD(_, _)
GCD(a, b) == IF b = 0 THEN a ELSE GCD(b, a % b)

\* n/d in lowest terms, g being the greatest common divisor of n and d
Lowest(n, d, g) == IF d < 0 THEN <<-(n \div g), -(d \div g)>> ELSE <<n \div g, d \div g>>

Rat(n, d) == IF d = 0 THEN <<0, 0>> ELSE Lowest(n, d, GCD(Abs(n), Abs(d)))

Zero == <<0, 1>>
One == <<1, 1>>
NaN == <<0, 0>>

IsNaN(x) == x[2] = 0
RAdd(x, y) == IF IsNaN(x) \/ IsNaN(y) THEN NaN ELSE Rat(x[1] * y[2] + y[1] * x[2], x[2] * y[2])
RSub(x, y) == IF IsNaN(x) \/ IsNaN(y) THEN NaN ELSE Rat(x[1] * y[2] - y[1] * x[2], x[2] * y[2])
RMul(x, y) == IF IsNaN(x) \/ IsNaN(y) THEN NaN ELSE Rat(x[1] * y[1], x[2] * y[2])
RDiv(x, y) == IF IsNaN(x) \/ IsNaN(y) THEN NaN ELSE Rat(x[1] * y[2], x[2] * y[1])
RLt(x, y) == ~IsNaN(x) /\ ~IsNaN(y) /\ x[1] * y[2] < y[1] * x[2]
RLe(x, y) == ~IsNaN(x) /\ ~IsNaN(y) /\ x[1] * y[2] <= y[1] * x[2]

\* Python's builtin min(a, b) and max(a, b): the first argument unless the
\* second compares strictly below (above) it.
PyMin(a, b) == IF RLt(b, a) THEN b ELSE a
PyMax(a, b) == IF RLt(a, b) THEN b ELSE a

(***************************************************************************)
(* Texts.                                                                  *)
(***************************************************************************)
IsSpace(c) == c \in {" ", "\t", "\n"}

\* str.lower() on the characters that occur in the model's texts
LowerChar(c) ==
  CASE c = "A" -> "a"
    [] c = "U" -> "u"
    [] c = "M" -> "m"
    [] OTHER -> c

UpperChar(c) ==
  CASE c = "a" -> "A"
    [] c = "u" -> "U"
    [] c = "m" -> "M"
    [] OTHER -> c

lower(text) == [i \in 1..Len(text) |-> LowerChar(text[i])]

\* re.sub(r"\s+", " ", text): every maximal run of whitespace becomes one space
RECURSIVE re_sub_ws(_, _)
re_sub_ws(text, i) ==
  IF i > Len(text) THEN <<>>
  ELSE IF IsSpace(text[i])
       THEN (IF i > 1 /\ IsSpace(text[i - 1]) THEN <<>> ELSE <<" ">>) \o re_sub_ws(text, i + 1)
       ELSE <<text[i]>> \o re_sub_ws(text, i + 1)

\* str.strip(): leading and trailing whitespace removed
strip(text) ==
  LET keep == {i \in 1..Len(text) : ~IsSpace(text[i])}
  IN  IF keep = {} THEN <<>>
      ELSE LET lo == CHOOSE i \in keep : \A k \in keep : i <= k
               hi == CHOOSE i \in keep : \A k \in keep : k <= i
           IN  SubSeq(text, lo, hi)

\* _normalize without the re.sub
_normalize_no_collapse(text) == strip(lower(text))

_normalize(text) == strip(re_sub_ws(lower(text), 1))

\* str.split(): the maximal runs of non-whitespace characters
RECURSIVE split_from(_, _, _)
split_from(text, i, word) ==
  IF i > Len(text) THEN (IF word = <<>> THEN <<>> ELSE <<word>>)
  ELSE IF IsSpace(text[i])
       THEN (IF word = <<>> THEN <<>> ELSE <<word>>) \o split_from(text, i + 1, <<>>)
       ELSE split_from(text, i + 1, Append(word, text[i]))

split(text) == split_from(text, 1, <<>>)

(***************************************************************************)
(* Unit-cost Levenshtein distance over token sequences (characters or      *)
(* words).                                                                 *)
(***************************************************************************)
Min3(a, b, c) == IF a <= b /\ a <= c THEN a ELSE IF b <= c THEN b ELSE c

\* The inner loop of _char_edit_distance (lines 128-134) from column j on:
\* the list curr after it, written in place; prev is the row above.  The
\* lists are indexed from 1 here: curr[j + 1] is Python's curr[j].
RECURSIVE _char_edit_distance_row(_, _, _, _, _)
_char_edit_distance_row(curr, prev, x, s2, j) ==
  IF j > Len(s2) THEN curr
  ELSE LET cost == IF x = s2[j] THEN 0 ELSE 1
           v == Min3(prev[j + 1] + 1, curr[j] + 1, prev[j] + cost)
       IN  _char_edit_distance_row([curr EXCEPT ![j + 1] = v], prev, x, s2, j + 1)

\* The outer loop (lines 126-135) from row i on, with the two lists as they
\* are then; the lists are swapped after each row (line 135), so that curr
\* starts each row holding the row before the last.  The value is prev
\* after the last swap.
RECURSIVE _char_edit_distance_rows(_, _, _, _, _)
_char_edit_distance_rows(prev, curr, s1, s2, i) ==
  IF i > Len(s1) THEN prev
  ELSE _char_edit_distance_rows(
         _char_edit_distance_row([curr EXCEPT ![1] = i], prev, s1[i], s2, 1),
         prev, s1, s2, i + 1)

_char_edit_distance(s1, s2) ==
  LET n == Len(s1)
      m == Len(s2)
  IN  IF n = 0 THEN m
      ELSE IF m = 0 THEN n
      ELSE _char_edit_distance_rows([j \in 1..(m + 1) |-> j - 1],
                                    [j \in 1..(m + 1) |-> 0], s1, s2, 1)[m + 1]

(***************************************************************************)
(* jiwer: the alignment of reference and hypothesis tokens and the         *)
(* measures computed from its counts of hits, substitutions, deletions and *)
(* insertions.  jiwer takes the counts from one minimum-distance alignment;*)
(* which one is the library's choice, so the counts are any optimal ones.  *)
(***************************************************************************)
RECURSIVE jiwer_table(_, _, _)
jiwer_table(rows, ref, hyp) ==
  LET i == Len(rows)
  IN  IF i > Len(ref) THEN rows
      ELSE jiwer_table(
             Append(rows,
                    _char_edit_distance_row([j \in 1..(Len(hyp) + 1) |-> IF j = 1 THEN i ELSE 0],
                                            rows[i], ref[i], hyp, 1)),
             ref, hyp)

\* The <<hits, substitutions, deletions, insertions>> of the minimum-distance
\* alignments of ref[1..i] with hyp[1..j]; D[i + 1][j + 1] is their distance.
RECURSIVE jiwer_ops(_, _, _, _, _)
jiwer_ops(D, ref, hyp, i, j) ==
  IF i = 0 /\ j = 0 THEN {<<0, 0, 0, 0>>}
  ELSE
    (IF i > 0 /\ j > 0 /\ ref[i] = hyp[j] /\ D[i + 1][j + 1] = D[i][j]
     THEN {<<o[1] + 1, o[2], o[3], o[4]>> : o \in jiwer_ops(D, ref, hyp, i - 1, j - 1)}
     ELSE {})
    \cup
    (IF i > 0 /\ j > 0 /\ ref[i] # hyp[j] /\ D[i + 1][j + 1] = D[i][j] + 1
     THEN {<<o[1], o[2] + 1, o[3], o[4]>> : o \in jiwer_ops(D, ref, hyp, i - 1, j - 1)}
     ELSE {})
    \cup
    (IF i > 0 /\ D[i + 1][j + 1] = D[i][j + 1] + 1
     THEN {<<o[1], o[2], o[3] + 1, o[4]>> : o \in jiwer_ops(D, ref, hyp, i - 1, j)}
     ELSE {})
    \cup
    (IF j > 0 /\ D[i + 1][j + 1] = D[i + 1][j] + 1
     THEN {<<o[1], o[2], o[3], o[4] + 1>> : o \in jiwer_ops(D, ref, hyp, i, j - 1)}
     ELSE {})

jiwer_process(ref, hyp) ==
  jiwer_ops(jiwer_table(<<[j \in 1..(Len(hyp) + 1) |-> j - 1]>>, ref, hyp),
            ref, hyp, Len(ref), Len(hyp))

\* o = <<H, S, D, I>>
jiwer_wer_of(o) == Rat(o[2] + o[3] + o[4], o[1] + o[2] + o[3])
jiwer_mer_of(o) == Rat(o[2] + o[3] + o[4], o[1] + o[2] + o[3] + o[4])
jiwer_wip_of(o) ==
  IF o[1] + o[2] + o[4] >= 1
  THEN RMul(Rat(o[1], o[1] + o[2] + o[3]), Rat(o[1], o[1] + o[2] + o[4]))
  ELSE Zero
jiwer_wil_of(o) == RSub(One, jiwer_wip_of(o))

\* jiwer.wer(ref, hyp), jiwer.cer(ref, hyp) on normalized, non-empty strings:
\* words are the space-separated tokens, characters include the spaces.
jiwer_wer(ref, hyp) == {jiwer_wer_of(o) : o \in jiwer_process(split(ref), split(hyp))}
jiwer_cer(ref, hyp) == {jiwer_wer_of(o) : o \in jiwer_process(ref, hyp)}

(***************************************************************************)
(* wer.py                                                                  *)
(***************************************************************************)
DEFAULT_FILLER_WORDS ==
  << <<"u", "m">>, <<"u", "h">>, <<"a", "h">>, <<"e", "r">>, <<"h", "m", "m">>,
     <<"l", "i", "k", "e">>, <<"y", "o", "u", " ", "k", "n", "o", "w">> >>

\* \w of the regular expressions, on the characters of the model's texts
\* (letters, whitespace and the hyphen)
IsWordChar(c) == ~IsSpace(c) /\ c # "-"

\* sorted(filler_words, key=lambda f: -len(f)): a stable sort, longest first
RECURSIVE sorted_by_neg_len(_)
sorted_by_neg_len(fs) ==
  IF fs = <<>> THEN <<>>
  ELSE LET m == CHOOSE i \in 1..Len(fs) :
                  /\ \A k \in 1..Len(fs) : Len(fs[k]) <= Len(fs[i])
                  /\ \A k \in 1..(i - 1) : Len(fs[k]) < Len(fs[i])
       IN  <<fs[m]>> \o sorted_by_neg_len(SubSeq(fs, 1, m - 1) \o SubSeq(fs, m + 1, Len(fs)))

\* \b at position p, between text[p - 1] and text[p]
WordBoundary(text, p) ==
  LET w(k) == k >= 1 /\ k <= Len(text) /\ IsWordChar(text[k])
  IN  w(p - 1) # w(p)

\* The pattern without its two \b
FillerMatchesAt_no_boundary(text, filler, i) ==
  /\ i + Len(filler) - 1 <= Len(text)
  /\ \A k \in 1..Len(filler) : LowerChar(text[i + k - 1]) = LowerChar(filler[k])

\* re.compile(r"\b" + re.escape(filler) + r"\b", re.IGNORECASE) matches at i
FillerMatchesAt(text, filler, i) ==
  /\ i + Len(filler) - 1 <= Len(text)
  /\ \A k \in 1..Len(filler) : LowerChar(text[i + k - 1]) = LowerChar(filler[k])
  /\ WordBoundary(text, i)
  /\ WordBoundary(text, i + Len(filler))

\* pattern.sub("", text): the matches, leftmost first and not overlapping, removed
RECURSIVE pattern_sub(_, _, _)
pattern_sub(text, filler, i) ==
  IF i > Len(text) THEN <<>>
  ELSE IF Len(filler) > 0 /\ FillerMatchesAt(text, filler, i)
       THEN pattern_sub(text, filler, i + Len(filler))
       ELSE <<text[i]>> \o pattern_sub(text, filler, i + 1)

RECURSIVE strip_each(_, _)
strip_each(result, sorted_fillers) ==
  IF sorted_fillers = <<>> THEN result
  ELSE strip_each(pattern_sub(result, Head(sorted_fillers), 1), Tail(sorted_fillers))

\* _strip_fillers that leaves the loop after its first filler
_strip_fillers_first_only(text, filler_words) ==
  strip(re_sub_ws(strip_each(text, SubSeq(sorted_by_neg_len(filler_words), 1, 1)), 1))

_strip_fillers(text, filler_words) ==
  strip(re_sub_ws(strip_each(text, sorted_by_neg_len(filler_words)), 1))

\* An optional argument
None == {}
Some(x) == {x}

\* The outcome of a call: a value returned, or an exception raised; with the
\* external steps the call made.
Returned(v, steps) == [status |-> "ok", exc |-> "", val |-> v, trace |-> steps]
Raised(e, steps) == [status |-> "raise", exc |-> e, val |-> <<>>, trace |-> steps]
IsStep(steps, name) == \E i \in 1..Len(steps) : steps[i] = name

\* calculate_wer with the arguments of jiwer.wer exchanged (line 94)
calculate_wer_swapped(hypothesis, reference, jiwer_ok) ==
  LET ref == _normalize(reference)
      hyp == _normalize(hypothesis)
  IN  IF ref = <<>> /\ hyp = <<>> THEN {Returned(Zero, <<>>)}
      ELSE IF ref = <<>> THEN {Returned(One, <<>>)}
      ELSE IF hyp = <<>> THEN {Returned(One, <<>>)}
      ELSE IF ref = hyp THEN {Returned(Zero, <<>>)}
      ELSE IF ~jiwer_ok THEN {Raised("MissingDependencyError", <<"import jiwer">>)}
      ELSE {Returned(w, <<"import jiwer", "jiwer.wer">>) : w \in jiwer_wer(hyp, ref)}

\* The possible outcomes of calculate_wer(hypothesis, reference).
calculate_wer(hypothesis, reference, jiwer_ok) ==
  LET ref == _normalize(reference)
      hyp == _normalize(hypothesis)
  IN  IF ref = <<>> /\ hyp = <<>> THEN {Returned(Zero, <<>>)}
      ELSE IF ref = <<>> THEN {Returned(One, <<>>)}
      ELSE IF hyp = <<>> THEN {Returned(One, <<>>)}
      ELSE IF ref = hyp THEN {Returned(Zero, <<>>)}
      ELSE IF ~jiwer_ok THEN {Raised("MissingDependencyError", <<"import jiwer">>)}
      ELSE {Returned(w, <<"import jiwer", "jiwer.wer">>) : w \in jiwer_wer(ref, hyp)}

\* The possible outcomes of calculate_cer(hypothesis, reference).
calculate_cer(hypothesis, reference, jiwer_ok) ==
  LET ref == _normalize(reference)
      hyp == _normalize(hypothesis)
  IN  IF ref = <<>> /\ hyp = <<>> THEN {Returned(Zero, <<>>)}
      ELSE IF ref = <<>> THEN {Returned(One, <<>>)}
      ELSE IF hyp = <<>> THEN {Returned(One, <<>>)}
      ELSE IF ref = hyp THEN {Returned(Zero, <<>>)}
      ELSE IF ~jiwer_ok THEN {Raised("MissingDependencyError", <<"import jiwer">>)}
      ELSE {Returned(c, <<"import jiwer", "jiwer.cer">>) : c \in jiwer_cer(ref, hyp)}

StringMetrics(wer, wer_normalized, cer, mer, wip, wil, word_accuracy) ==
  [wer |-> wer, wer_normalized |-> wer_normalized, cer |-> cer, mer |-> mer,
   wip |-> wip, wil |-> wil, word_accuracy |-> word_accuracy]

\* The possible outcomes of calculate_string_metrics(hypothesis, reference,
\* filler_words); the argument is None or Some(list).
calculate_string_metrics(hypothesis, reference, filler_words_arg, jiwer_ok) ==
  LET filler_words == IF filler_words_arg = None THEN DEFAULT_FILLER_WORDS
                      ELSE CHOOSE fw \in filler_words_arg : TRUE
      ref == _normalize(reference)
      hyp == _normalize(hypothesis)
      ref_clean == _strip_fillers(ref, filler_words)
      hyp_clean == _strip_fillers(hyp, filler_words)
      \* the computations of lines 182-190 and their steps
      main == IF ref = hyp
              THEN {[wer |-> Zero, mer |-> Zero, cer |-> Zero, wil |-> Zero, wip |-> One,
                     steps |-> <<>>]}
              ELSE {[wer |-> jiwer_wer_of(o), cer |-> c, mer |-> jiwer_mer_of(o),
                     wip |-> jiwer_wip_of(o), wil |-> jiwer_wil_of(o),
                     steps |-> <<"jiwer.wer", "jiwer.cer", "jiwer.mer", "jiwer.wip", "jiwer.wil">>] :
                       o \in jiwer_process(split(ref), split(hyp)), c \in jiwer_cer(ref, hyp)}
      \* the computation of lines 196-203
      norm == IF ref_clean = <<>> /\ hyp_clean = <<>> THEN {[v |-> Zero, steps |-> <<>>]}
              ELSE IF ref_clean = <<>> \/ hyp_clean = <<>> THEN {[v |-> One, steps |-> <<>>]}
              ELSE IF ref_clean = hyp_clean THEN {[v |-> Zero, steps |-> <<>>]}
              ELSE {[v |-> w, steps |-> <<"jiwer.wer">>] : w \in jiwer_wer(ref_clean, hyp_clean)}
  IN  IF ref = <<>> /\ hyp = <<>>
      THEN {Returned(StringMetrics(Zero, Zero, Zero, Zero, One, Zero, One), <<>>)}
      ELSE IF ref = <<>> \/ hyp = <<>>
      THEN {Returned(StringMetrics(One, One, One, One, Zero, One, Zero), <<>>)}
      ELSE IF ~jiwer_ok THEN {Raised("MissingDependencyError", <<"import jiwer">>)}
      ELSE {Returned(StringMetrics(m.wer, n.v, m.cer, m.mer, m.wip, m.wil,
                                   PyMax(Zero, RSub(One, m.wer))),
                     <<"import jiwer">> \o m.steps \o n.steps) : m \in main, n \in norm}

(***************************************************************************)
(* Embedding vectors: integer vectors whose Euclidean norm is an integer,  *)
(* so that norms and cosines are exact rationals.                          *)
(***************************************************************************)
Vectors == {<<0, 0>>, <<1, 0>>, <<-1, 0>>, <<3, 4>>}

Dot(a, b) == a[1] * b[1] + a[2] * b[2]
ISqrt(n) == CHOOSE k \in 0..n : k * k = n
\* np.linalg.norm(a)
Norm(a) == Rat(ISqrt(Dot(a, a)), 1)

\* x < 1e-12 for a rational x = n/d: n * 10^12 < d, computed without leaving
\* the 32-bit integers; 10^12 = SqrtInvEps * SqrtInvEps.
SqrtInvEps == 1000000
BelowEps(x) == ~IsNaN(x) /\ x[1] <= (((x[2] - 1) \div SqrtInvEps) \div SqrtInvEps)

\* The error of a floating-point quotient that is exactly 1 or -1 in the
\* reals: none, or one step away from it.
Ulp == Rat(1, 64)
Roundings == {-1, 0, 1}

(***************************************************************************)
(* saer.py                                                                 *)
(***************************************************************************)
\* How the sentence-embedding provider behaves during one call.
LabseBehaviours == {"ok", "not_installed", "load_fails", "encode_fails"}

\* _get_labse(device) with cache the current _labse_cache: the model, or the
\* exception raised; the cache afterwards; the steps made.
_get_labse(device, cache, behaviour) ==
  IF device \in cache THEN [status |-> "ok", exc |-> "", cache |-> cache, trace |-> <<>>]
  ELSE IF behaviour = "not_installed"
  THEN [status |-> "raise", exc |-> "MissingDependencyError", cache |-> cache,
        trace |-> <<"import sentence_transformers">>]
  ELSE IF behaviour = "load_fails"
  THEN [status |-> "raise", exc |-> "ModelLoadError", cache |-> cache,
        trace |-> <<"import sentence_transformers", "SentenceTransformer">>]
  ELSE [status |-> "ok", exc |-> "", cache |-> cache \cup {device},
        trace |-> <<"import sentence_transformers", "SentenceTransformer">>]

\* _compute_f_form with the arguments of jiwer.wer exchanged (line 101)
_compute_f_form_swapped(hypothesis, reference, jiwer_ok) ==
  LET ref == _normalize(reference)
      hyp == _normalize(hypothesis)
  IN  IF ref = <<>> /\ hyp = <<>> THEN {Returned(Zero, <<>>)}
      ELSE IF ref = <<>> \/ hyp = <<>> THEN {Returned(One, <<>>)}
      ELSE IF ref = hyp THEN {Returned(Zero, <<>>)}
      ELSE IF ~jiwer_ok THEN {Raised("MissingDependencyError", <<"import jiwer">>)}
      ELSE {Returned(w, <<"import jiwer", "jiwer.wer">>) : w \in jiwer_wer(hyp, ref)}

\* The possible outcomes of _compute_f_form(hypothesis, reference).
_compute_f_form(hypothesis, reference, jiwer_ok) ==
  LET ref == _normalize(reference)
      hyp == _normalize(hypothesis)
  IN  IF ref = <<>> /\ hyp = <<>> THEN {Returned(Zero, <<>>)}
      ELSE IF ref = <<>> \/ hyp = <<>> THEN {Returned(One, <<>>)}
      ELSE IF ref = hyp THEN {Returned(Zero, <<>>)}
      ELSE IF ~jiwer_ok THEN {Raised("MissingDependencyError", <<"import jiwer">>)}
      ELSE {Returned(w, <<"import jiwer", "jiwer.wer">>) : w \in jiwer_wer(ref, hyp)}

\* An outcome that also tells the cache afterwards and what the provider
\* returned (emb).
WithCache(o, cache, emb) ==
  [status |-> o.status, exc |-> o.exc, val |-> o.val, trace |-> o.trace,
   cache |-> cache, emb |-> emb, locals |-> [path |-> "none"]]

\* A failure of the provider that is caught and answered with a score of 0.0
provider_raises_caught(exc, steps, cache, failure) ==
  WithCache(Returned(Zero, steps), cache, <<failure>>)

\* A failure of the embedding provider (an import, the loading of the model
\* or an embedding call raises): no handler surrounds the calls, the
\* exception leaves the function; what the provider gave is the failure.
provider_raises(exc, steps, cache, failure) ==
  WithCache(Raised(exc, steps), cache, <<failure>>)

\* epsilon_sem_of without the clamp of the cosine
epsilon_sem_of_unclamped(ref_emb, hyp_emb, rounding) ==
  LET norm_ref == Norm(ref_emb)
      norm_hyp == Norm(hyp_emb)
      exact == RDiv(Rat(Dot(ref_emb, hyp_emb), 1), RMul(norm_ref, norm_hyp))
      cosine_sim == IF exact = One \/ exact = Rat(-1, 1)
                    THEN RAdd(exact, RMul(Rat(rounding, 1), Ulp))
                    ELSE exact
  IN  IF BelowEps(norm_ref) \/ BelowEps(norm_hyp) THEN One
      ELSE RSub(One, cosine_sim)

\* lines 130-139, from the two embeddings and the rounding of the quotient
epsilon_sem_of(ref_emb, hyp_emb, rounding) ==
  LET norm_ref == Norm(ref_emb)
      norm_hyp == Norm(hyp_emb)
      exact == RDiv(Rat(Dot(ref_emb, hyp_emb), 1), RMul(norm_ref, norm_hyp))
      cosine_sim == IF exact = One \/ exact = Rat(-1, 1)
                    THEN RAdd(exact, RMul(Rat(rounding, 1), Ulp))
                    ELSE exact
  IN  IF BelowEps(norm_ref) \/ BelowEps(norm_hyp) THEN One
      ELSE RSub(One, PyMax(Zero, PyMin(One, cosine_sim)))

\* The possible outcomes of _compute_epsilon_sem(hypothesis, reference, device).
_compute_epsilon_sem(hypothesis, reference, device, cache) ==
  LET ref == _normalize(reference)
      hyp == _normalize(hypothesis)
  IN  IF ref = <<>> /\ hyp = <<>> THEN {WithCache(Returned(Zero, <<>>), cache, <<>>)}
      ELSE IF ref = <<>> \/ hyp = <<>> THEN {WithCache(Returned(One, <<>>), cache, <<>>)}
      ELSE IF ref = hyp THEN {WithCache(Returned(Zero, <<>>), cache, <<>>)}
      ELSE UNION {
        LET model == _get_labse(device, cache, behaviour)
        IN  IF model.status = "raise"
            THEN {provider_raises(model.exc, model.trace, model.cache, behaviour)}
            ELSE IF behaviour = "encode_fails"
            THEN {provider_raises("ProviderError", model.trace \o <<"encode">>, model.cache,
                                  behaviour)}
            ELSE {WithCache(Returned(epsilon_sem_of(ref_emb, hyp_emb, rounding),
                                     model.trace \o <<"encode">>),
                            model.cache, <<ref_emb, hyp_emb, <<rounding>> >>) :
                    ref_emb \in Vectors, hyp_emb \in Vectors, rounding \in Roundings}
        : behaviour \in LabseBehaviours}

SaerResult(saer, f_form, epsilon_sem, lambda_) ==
  [saer |-> saer, f_form |-> f_form, epsilon_sem |-> epsilon_sem, lambda_ |-> lambda_]

\* A range test that lets NaN through: lambda_ < 0.0 or lambda_ > 1.0
lambda_below_or_above(lambda_) == RLt(lambda_, Zero) \/ RLt(One, lambda_)

\* line 178: not 0.0 <= lambda_ <= 1.0
lambda_out_of_range(lambda_) == ~(RLe(Zero, lambda_) /\ RLe(lambda_, One))

\* The blend with the two weights exchanged
saer_blend_swapped(lambda_, f_form, epsilon_sem) ==
  RAdd(RMul(lambda_, epsilon_sem), RMul(RSub(One, lambda_), f_form))

\* line 212: lambda_ * f_form + (1.0 - lambda_) * epsilon_sem
saer_blend(lambda_, f_form, epsilon_sem) ==
  RAdd(RMul(lambda_, f_form), RMul(RSub(One, lambda_), epsilon_sem))

\* The possible outcomes of calculate_saer(hypothesis, reference, lambda_, device).
calculate_saer(hypothesis, reference, lambda_, device, cache, jiwer_ok) ==
  LET ref == _normalize(reference)
      hyp == _normalize(hypothesis)
  IN  IF lambda_out_of_range(lambda_)
      THEN {WithCache(Raised("ValueError", <<>>), cache, <<>>)}
      ELSE IF ref = <<>> /\ hyp = <<>>
      THEN {WithCache(Returned(SaerResult(Zero, Zero, Zero, lambda_), <<>>), cache, <<>>)}
      ELSE IF ref = <<>> \/ hyp = <<>>
      THEN {WithCache(Returned(SaerResult(One, One, One, lambda_), <<>>), cache, <<>>)}
      ELSE IF ref = hyp
      THEN {WithCache(Returned(SaerResult(Zero, Zero, Zero, lambda_), <<>>), cache, <<>>)}
      ELSE UNION {
        IF f.status = "raise" THEN {WithCache(f, cache, <<>>)}
        ELSE {IF e.status = "raise"
              THEN WithCache(Raised(e.exc, f.trace \o e.trace), e.cache, e.emb)
              ELSE WithCache(
                     Returned(SaerResult(saer_blend(lambda_, f.val, e.val),
                                         f.val, e.val, lambda_),
                              f.trace \o e.trace),
                     e.cache, e.emb) :
                e \in _compute_epsilon_sem(hypothesis, reference, device, cache)}
        : f \in _compute_f_form(hypothesis, reference, jiwer_ok)}

(***************************************************************************)
(* semascore.py                                                            *)
(***************************************************************************)
\* How the BERT provider behaves during one call.
BertBehaviours == {"ok", "not_installed", "load_fails", "embed_fails"}

\* semascore._get_bert(device) with cache the current _bert_cache.
_get_bert(device, cache, behaviour) ==
  IF device \in cache THEN [status |-> "ok", exc |-> "", cache |-> cache, trace |-> <<>>]
  ELSE IF behaviour = "not_installed"
  THEN [status |-> "raise", exc |-> "MissingDependencyError", cache |-> cache,
        trace |-> <<"import transformers">>]
  ELSE IF behaviour = "load_fails"
  THEN [status |-> "raise", exc |-> "ModelLoadError", cache |-> cache,
        trace |-> <<"import transformers", "import torch", "from_pretrained">>]
  ELSE [status |-> "ok", exc |-> "", cache |-> cache \cup {device},
        trace |-> <<"import transformers", "import torch", "from_pretrained">>]

\* _cosine_similarity(a, b), with the rounding of the quotient
_cosine_similarity(a, b, rounding) ==
  LET norm_a == Norm(a)
      norm_b == Norm(b)
      exact == RDiv(Rat(Dot(a, b), 1), RMul(norm_a, norm_b))
      sim == IF exact = One \/ exact = Rat(-1, 1)
             THEN RAdd(exact, RMul(Rat(rounding, 1), Ulp))
             ELSE exact
  IN  IF BelowEps(norm_a) \/ BelowEps(norm_b) THEN Zero
      ELSE PyMax(Zero, PyMin(One, sim))

\* best_ref_for that keeps the last word of least distance
best_ref_for_last(ref_words, hyp_w) ==
  LET d(k) == _char_edit_distance(ref_words[k], hyp_w)
      best == CHOOSE k \in 1..Len(ref_words) :
                /\ \A q \in 1..Len(ref_words) : d(k) <= d(q)
                /\ \A q \in (k + 1)..Len(ref_words) : d(q) > d(k)
  IN  ref_words[best]

\* min(ref_words, key=lambda rw: _char_edit_distance(rw, hyp_w)): the first
\* word of the list among those of least distance
best_ref_for(ref_words, hyp_w) ==
  LET d(k) == _char_edit_distance(ref_words[k], hyp_w)
      best == CHOOSE k \in 1..Len(ref_words) :
                /\ \A q \in 1..Len(ref_words) : d(k) <= d(q)
                /\ \A q \in 1..(k - 1) : d(q) > d(k)
  IN  ref_words[best]

\* _align_words that also emits a deletion pair for every reference word no
\* hypothesis word selected
_align_words_with_deletions(ref_words, hyp_words) ==
  LET pairs == [k \in 1..Len(hyp_words) |->
                  <<best_ref_for(ref_words, hyp_words[k]), hyp_words[k]>>]
      unused == SelectSeq(ref_words,
                          LAMBDA w : \A k \in 1..Len(pairs) : pairs[k][1] # w)
  IN  IF hyp_words = <<>> THEN [k \in 1..Len(ref_words) |-> <<ref_words[k], <<>> >>]
      ELSE IF ref_words = <<>> THEN [k \in 1..Len(hyp_words) |-> << <<>>, hyp_words[k]>>]
      ELSE pairs \o [k \in 1..Len(unused) |-> <<unused[k], <<>> >>]

\* _align_words(ref_words, hyp_words), lines 146-155
_align_words(ref_words, hyp_words) ==
  IF hyp_words = <<>> THEN [k \in 1..Len(ref_words) |-> <<ref_words[k], <<>> >>]
  ELSE IF ref_words = <<>> THEN [k \in 1..Len(hyp_words) |-> << <<>>, hyp_words[k]>>]
  ELSE [k \in 1..Len(hyp_words) |-> <<best_ref_for(ref_words, hyp_words[k]), hyp_words[k]>>]

PyMaxInt(a, b) == IF a < b THEN b ELSE a

\* _segment_mer that takes the character-level ratio whether or not jiwer
\* can be imported
_segment_mer_char_level(ref_segment, hyp_segment, jiwer_ok) ==
  IF ref_segment = <<>> /\ hyp_segment = <<>> THEN {[v |-> Zero, steps |-> <<>>]}
  ELSE IF ref_segment = <<>> \/ hyp_segment = <<>> THEN {[v |-> One, steps |-> <<>>]}
  ELSE IF ref_segment = hyp_segment THEN {[v |-> Zero, steps |-> <<>>]}
  ELSE LET dist == _char_edit_distance(ref_segment, hyp_segment)
           max_len == PyMaxInt(Len(ref_segment), Len(hyp_segment))
       IN  {[v |-> IF max_len > 0 THEN Rat(dist, max_len) ELSE Zero,
             steps |-> <<"import jiwer">>]}

\* The possible values of _segment_mer(ref_segment, hyp_segment), each with
\* the steps made.
_segment_mer(ref_segment, hyp_segment, jiwer_ok) ==
  IF ref_segment = <<>> /\ hyp_segment = <<>> THEN {[v |-> Zero, steps |-> <<>>]}
  ELSE IF ref_segment = <<>> \/ hyp_segment = <<>> THEN {[v |-> One, steps |-> <<>>]}
  ELSE IF ref_segment = hyp_segment THEN {[v |-> Zero, steps |-> <<>>]}
  ELSE IF jiwer_ok
  THEN {[v |-> jiwer_mer_of(o), steps |-> <<"import jiwer", "jiwer.mer">>] :
          o \in jiwer_process(split(ref_segment), split(hyp_segment))}
  ELSE LET dist == _char_edit_distance(ref_segment, hyp_segment)
           max_len == PyMaxInt(Len(ref_segment), Len(hyp_segment))
       IN  {[v |-> IF max_len > 0 THEN Rat(dist, max_len) ELSE Zero,
             steps |-> <<"import jiwer">>]}

\* The loop, with an insertion pair contributing the score 0 and the weight
\* of a zero vector (the np.zeros_like of line 260) instead of being skipped
RECURSIVE semascore_loop_weighing_insertions(_, _, _, _, _, _)
semascore_loop_weighing_insertions(aligned_pairs, k, E, ref_emb_norm, rounding, jiwer_ok) ==
  IF k > Len(aligned_pairs) THEN {[scores |-> <<>>, weights |-> <<>>, steps |-> <<>>]}
  ELSE
    LET ref_seg == aligned_pairs[k][1]
        hyp_seg == aligned_pairs[k][2]
        rest == semascore_loop_weighing_insertions(aligned_pairs, k + 1, E, ref_emb_norm,
                                                   rounding, jiwer_ok)
    IN  IF ref_seg = <<>> /\ hyp_seg = <<>> THEN rest
        ELSE IF ref_seg = <<>>
        THEN {[scores |-> <<Zero>> \o r.scores,
               weights |-> <<RDiv(Zero, ref_emb_norm)>> \o r.weights,
               steps |-> r.steps] : r \in rest}
        ELSE
          LET bert_cos == IF hyp_seg # <<>>
                          THEN _cosine_similarity(E[ref_seg], E[hyp_seg], rounding)
                          ELSE Zero
              embeds == IF hyp_seg # <<>> THEN <<"embed", "embed">> ELSE <<"embed">>
              importance == RDiv(Norm(E[ref_seg]), ref_emb_norm)
          IN  {[scores |-> <<RMul(bert_cos, RSub(One, mer.v))>> \o r.scores,
                weights |-> <<importance>> \o r.weights,
                steps |-> embeds \o mer.steps \o <<"embed">> \o r.steps] :
                 mer \in _segment_mer(ref_seg, hyp_seg, jiwer_ok), r \in rest}

\* The loop of lines 238-265 over the aligned pairs from the k-th on: the
\* possible <<scores, weights, steps>> it adds.  E is the provider: the
\* embedding of each text.
RECURSIVE semascore_loop(_, _, _, _, _, _)
semascore_loop(aligned_pairs, k, E, ref_emb_norm, rounding, jiwer_ok) ==
  IF k > Len(aligned_pairs) THEN {[scores |-> <<>>, weights |-> <<>>, steps |-> <<>>]}
  ELSE
    LET ref_seg == aligned_pairs[k][1]
        hyp_seg == aligned_pairs[k][2]
        rest == semascore_loop(aligned_pairs, k + 1, E, ref_emb_norm, rounding, jiwer_ok)
    IN  IF ref_seg = <<>> /\ hyp_seg = <<>> THEN rest
        ELSE IF ref_seg = <<>> THEN rest
        ELSE
          LET bert_cos == IF hyp_seg # <<>>
                          THEN _cosine_similarity(E[ref_seg], E[hyp_seg], rounding)
                          ELSE Zero
              embeds == IF hyp_seg # <<>> THEN <<"embed", "embed">> ELSE <<"embed">>
              importance == RDiv(Norm(E[ref_seg]), ref_emb_norm)
          IN  {[scores |-> <<RMul(bert_cos, RSub(One, mer.v))>> \o r.scores,
                weights |-> <<importance>> \o r.weights,
                steps |-> embeds \o mer.steps \o <<"embed">> \o r.steps] :
                 mer \in _segment_mer(ref_seg, hyp_seg, jiwer_ok), r \in rest}

RECURSIVE RSum(_)
RSum(xs) == IF xs = <<>> THEN Zero ELSE RAdd(Head(xs), RSum(Tail(xs)))

\* The aggregation without the weights: the plain mean of the scores
semascore_aggregate_unweighted(scores, weights) ==
  PyMax(Zero, PyMin(One, RDiv(RSum(scores), Rat(Len(scores), 1))))

\* lines 271-280: the aggregation of the scores with the weights
semascore_aggregate(scores, weights) ==
  LET total_weight == RSum(weights)
      semascore == IF BelowEps(total_weight)
                   THEN RDiv(RSum(scores), Rat(Len(scores), 1))
                   ELSE RDiv(RSum([k \in 1..Len(scores) |-> RMul(scores[k], weights[k])]),
                             total_weight)
  IN  PyMax(Zero, PyMin(One, semascore))

\* An outcome with the cache afterwards, what the provider returned, and the
\* function's local lists when it returned.
WithLocals(o, cache, emb, loc) ==
  [status |-> o.status, exc |-> o.exc, val |-> o.val, trace |-> o.trace,
   cache |-> cache, emb |-> emb, locals |-> loc]

NoLocals == [path |-> "none"]

\* The texts calculate_semascore may embed for ref and hyp
EmbeddedTexts(ref, hyp) ==
  {ref} \cup {split(ref)[k] : k \in 1..Len(split(ref))}
        \cup {split(hyp)[k] : k \in 1..Len(split(hyp))}

\* lines 217-283 of calculate_semascore, on the normalized texts
semascore_pipeline(ref, hyp, device, cache, jiwer_ok) ==
  UNION {
    LET bert == _get_bert(device, cache, behaviour)
        ref_words == split(ref)
        hyp_words == split(hyp)
        aligned_pairs == _align_words(ref_words, hyp_words)
    IN  IF bert.status = "raise"
        THEN {provider_raises(bert.exc, bert.trace, bert.cache, behaviour)}
        ELSE IF aligned_pairs = <<>>
        THEN {WithLocals(Returned(Zero, bert.trace), bert.cache, <<>>,
                         [path |-> "no_pairs"])}
        ELSE IF behaviour = "embed_fails"
        THEN {provider_raises("ProviderError", bert.trace \o <<"embed">>, bert.cache,
                              behaviour)}
        ELSE UNION {
          LET ref_emb_norm == Norm(E[ref])
          IN  IF BelowEps(ref_emb_norm)
              THEN {WithLocals(Returned(Zero, bert.trace \o <<"embed">>), bert.cache,
                               <<E, <<rounding>> >>, [path |-> "zero_ref_norm"])}
              ELSE {IF l.scores = <<>>
                    THEN WithLocals(Returned(Zero, bert.trace \o <<"embed">> \o l.steps),
                                    bert.cache, <<E, <<rounding>> >>,
                                    [path |-> "no_scores"])
                    ELSE WithLocals(
                           Returned(semascore_aggregate(l.scores, l.weights),
                                    bert.trace \o <<"embed">> \o l.steps),
                           bert.cache, <<E, <<rounding>> >>,
                           [path |-> "aggregate", scores |-> l.scores,
                            weights |-> l.weights, aligned_pairs |-> aligned_pairs]) :
                      l \in semascore_loop(aligned_pairs, 1, E, ref_emb_norm,
                                           rounding, jiwer_ok)}
          : E \in [EmbeddedTexts(ref, hyp) -> Vectors], rounding \in Roundings}
    : behaviour \in BertBehaviours}

\* calculate_semascore with the test for one empty text made first
calculate_semascore_one_empty_first(hypothesis, reference, device, cache, jiwer_ok) ==
  LET ref == strip(re_sub_ws(lower(reference), 1))
      hyp == strip(re_sub_ws(lower(hypothesis), 1))
      edge(v) == {WithLocals(Returned(v, <<>>), cache, <<>>, NoLocals)}
  IN  IF ref = <<>> \/ hyp = <<>> THEN edge(Zero)
      ELSE IF ref = <<>> /\ hyp = <<>> THEN edge(One)
      ELSE IF ref = hyp THEN edge(One)
      ELSE semascore_pipeline(ref, hyp, device, cache, jiwer_ok)

\* The possible outcomes of calculate_semascore(hypothesis, reference, device).
calculate_semascore(hypothesis, reference, device, cache, jiwer_ok) ==
  LET ref == strip(re_sub_ws(lower(reference), 1))
      hyp == strip(re_sub_ws(lower(hypothesis), 1))
      edge(v) == {WithLocals(Returned(v, <<>>), cache, <<>>, NoLocals)}
  IN  IF ref = <<>> /\ hyp = <<>> THEN edge(One)
      ELSE IF ref = <<>> \/ hyp = <<>> THEN edge(Zero)
      ELSE IF ref = hyp THEN edge(One)
      ELSE semascore_pipeline(ref, hyp, device, cache, jiwer_ok)

(***************************************************************************)
(* asd.py                                                                  *)
(*                                                                         *)
(* A matrix is [shape |-> <<rows, columns>>, at |-> the entries], indexed  *)
(* from 0 as in numpy.  A token-embedding array is the sequence of its     *)
(* rows.                                                                   *)
(***************************************************************************)
\* asd._get_bert(device): the same dict as semascore's (line 35)
asd_get_bert(device, cache, behaviour) ==
  IF device \in cache THEN [status |-> "ok", exc |-> "", cache |-> cache, trace |-> <<>>]
  ELSE IF behaviour = "not_installed"
  THEN [status |-> "raise", exc |-> "MissingDependencyError", cache |-> cache,
        trace |-> <<"import transformers">>]
  ELSE IF behaviour = "load_fails"
  THEN [status |-> "raise", exc |-> "ModelLoadError", cache |-> cache,
        trace |-> <<"import transformers", "import torch", "from_pretrained">>]
  ELSE [status |-> "ok", exc |-> "", cache |-> cache \cup {device},
        trace |-> <<"import transformers", "import torch", "from_pretrained">>]

\* np.clip(x, -1.0, 1.0)
Clip(x) == IF RLt(x, Rat(-1, 1)) THEN Rat(-1, 1) ELSE IF RLt(One, x) THEN One ELSE x

_cosine_distance_matrix(ref_emb, hyp_emb) ==
  LET safe(n) == IF BelowEps(n) THEN One ELSE n
      ref_norm(i) == safe(Norm(ref_emb[i + 1]))
      hyp_norm(j) == safe(Norm(hyp_emb[j + 1]))
      \* (ref_emb / ref_norm) @ (hyp_emb / hyp_norm).T
      sim(i, j) == RDiv(Rat(Dot(ref_emb[i + 1], hyp_emb[j + 1]), 1),
                        RMul(ref_norm(i), hyp_norm(j)))
      dist(i, j) == RSub(One, Clip(sim(i, j)))
  IN  [shape |-> <<Len(ref_emb), Len(hyp_emb)>>,
       at |-> [ij \in (0..(Len(ref_emb) - 1)) \X (0..(Len(hyp_emb) - 1)) |->
                 dist(ij[1], ij[2])]]

\* Python's min(a, b, c)
PyMin3(a, b, c) == PyMin(PyMin(a, b), c)

\* dp_fill_row without the insertion move
RECURSIVE dp_fill_row_no_insert(_, _, _, _)
dp_fill_row_no_insert(curr, prev, cost, i) ==
  LET j == Len(curr)
  IN  IF j > cost.shape[2] THEN curr
      ELSE LET match_cost == RAdd(prev[j], cost.at[<<i - 1, j - 1>>])
               delete_cost == RAdd(prev[j + 1], One)
           IN  dp_fill_row_no_insert(Append(curr, PyMin(match_cost, delete_cost)),
                                     prev, cost, i)

\* The loop over j of lines 210-214 for row i: curr holds dp[i, 0..Len(curr)-1],
\* prev is dp[i - 1, :] (both as sequences, column j at position j + 1).
RECURSIVE dp_fill_row(_, _, _, _)
dp_fill_row(curr, prev, cost, i) ==
  LET j == Len(curr)
  IN  IF j > cost.shape[2] THEN curr
      ELSE LET match_cost == RAdd(prev[j], cost.at[<<i - 1, j - 1>>])
               delete_cost == RAdd(prev[j + 1], One)
               insert_cost == RAdd(curr[j], One)
           IN  dp_fill_row(Append(curr, PyMin3(match_cost, delete_cost, insert_cost)),
                           prev, cost, i)

\* The loop over i of lines 209-214: rows holds dp[0..Len(rows)-1, :].
RECURSIVE dp_fill(_, _)
dp_fill(rows, cost) ==
  LET i == Len(rows)
  IN  IF i > cost.shape[1] THEN rows
      ELSE dp_fill(Append(rows, dp_fill_row(<<Rat(i, 1)>>, rows[i], cost, i)), cost)

\* The table of lines 199-214: dp[i, j] is dp_table(cost)[i + 1][j + 1].
dp_table(cost) == dp_fill(<<[j \in 1..(cost.shape[2] + 1) |-> Rat(j - 1, 1)]>>, cost)

\* One iteration that appends a pair on an up move as well
dp_backtrack_step_pair_on_up(dp, cost, i, j, path) ==
  IF i > 0 /\ j > 0
  THEN LET diag == RAdd(dp[i][j], cost.at[<<i - 1, j - 1>>])
           up == RAdd(dp[i][j + 1], One)
           left == RAdd(dp[i + 1][j], One)
           min_val == PyMin3(diag, up, left)
       IN  IF min_val = diag
           THEN [i |-> i - 1, j |-> j - 1, path |-> Append(path, <<i - 1, j - 1>>)]
           ELSE IF min_val = up
           THEN [i |-> i - 1, j |-> j, path |-> Append(path, <<i - 1, j - 1>>)]
           ELSE [i |-> i, j |-> j - 1, path |-> path]
  ELSE IF i > 0 THEN [i |-> i - 1, j |-> j, path |-> path]
  ELSE [i |-> i, j |-> j - 1, path |-> path]

\* One iteration that moves left on the border where only i is positive
dp_backtrack_step_left_on_border(dp, cost, i, j, path) ==
  IF i > 0 /\ j > 0
  THEN LET diag == RAdd(dp[i][j], cost.at[<<i - 1, j - 1>>])
           up == RAdd(dp[i][j + 1], One)
           left == RAdd(dp[i + 1][j], One)
           min_val == PyMin3(diag, up, left)
       IN  IF min_val = diag
           THEN [i |-> i - 1, j |-> j - 1, path |-> Append(path, <<i - 1, j - 1>>)]
           ELSE IF min_val = up
           THEN [i |-> i - 1, j |-> j, path |-> path]
           ELSE [i |-> i, j |-> j - 1, path |-> path]
  ELSE [i |-> i, j |-> j - 1, path |-> path]

\* One iteration of the loop of lines 220-238, from (i, j) with the pairs
\* appended so far: the values of i, j and path after it.
dp_backtrack_step(dp, cost, i, j, path) ==
  IF i > 0 /\ j > 0
  THEN LET diag == RAdd(dp[i][j], cost.at[<<i - 1, j - 1>>])
           up == RAdd(dp[i][j + 1], One)
           left == RAdd(dp[i + 1][j], One)
           min_val == PyMin3(diag, up, left)
       IN  IF min_val = diag
           THEN [i |-> i - 1, j |-> j - 1, path |-> Append(path, <<i - 1, j - 1>>)]
           ELSE IF min_val = up
           THEN [i |-> i - 1, j |-> j, path |-> path]
           ELSE [i |-> i, j |-> j - 1, path |-> path]
  ELSE IF i > 0 THEN [i |-> i - 1, j |-> j, path |-> path]
  ELSE [i |-> i, j |-> j - 1, path |-> path]

\* dp_backtrack with the two skips tried before the diagonal move
RECURSIVE dp_backtrack_skips_first(_, _, _, _, _)
dp_backtrack_skips_first(dp, cost, i, j, path) ==
  IF ~(i > 0 \/ j > 0) THEN path
  ELSE IF i > 0 /\ j > 0
  THEN LET diag == RAdd(dp[i][j], cost.at[<<i - 1, j - 1>>])
           up == RAdd(dp[i][j + 1], One)
           left == RAdd(dp[i + 1][j], One)
           min_val == PyMin3(diag, up, left)
       IN  IF min_val = up
           THEN dp_backtrack_skips_first(dp, cost, i - 1, j, path)
           ELSE IF min_val = left
           THEN dp_backtrack_skips_first(dp, cost, i, j - 1, path)
           ELSE dp_backtrack_skips_first(dp, cost, i - 1, j - 1,
                                         Append(path, <<i - 1, j - 1>>))
  ELSE IF i > 0 THEN dp_backtrack_skips_first(dp, cost, i - 1, j, path)
  ELSE dp_backtrack_skips_first(dp, cost, i, j - 1, path)

\* dp_backtrack with the left move tried before the up move
RECURSIVE dp_backtrack_left_first(_, _, _, _, _)
dp_backtrack_left_first(dp, cost, i, j, path) ==
  IF ~(i > 0 \/ j > 0) THEN path
  ELSE IF i > 0 /\ j > 0
  THEN LET diag == RAdd(dp[i][j], cost.at[<<i - 1, j - 1>>])
           up == RAdd(dp[i][j + 1], One)
           left == RAdd(dp[i + 1][j], One)
           min_val == PyMin3(diag, up, left)
       IN  IF min_val = diag
           THEN dp_backtrack_left_first(dp, cost, i - 1, j - 1, Append(path, <<i - 1, j - 1>>))
           ELSE IF min_val = left
           THEN dp_backtrack_left_first(dp, cost, i, j - 1, path)
           ELSE dp_backtrack_left_first(dp, cost, i - 1, j, path)
  ELSE IF i > 0 THEN dp_backtrack_left_first(dp, cost, i - 1, j, path)
  ELSE dp_backtrack_left_first(dp, cost, i, j - 1, path)

\* The loop of lines 220-238 from (i, j) with the pairs appended so far.
RECURSIVE dp_backtrack(_, _, _, _, _)
dp_backtrack(dp, cost, i, j, path) ==
  IF ~(i > 0 \/ j > 0) THEN path
  ELSE IF i > 0 /\ j > 0
  THEN LET diag == RAdd(dp[i][j], cost.at[<<i - 1, j - 1>>])
           up == RAdd(dp[i][j + 1], One)
           left == RAdd(dp[i + 1][j], One)
           min_val == PyMin3(diag, up, left)
       IN  IF min_val = diag
           THEN dp_backtrack(dp, cost, i - 1, j - 1, Append(path, <<i - 1, j - 1>>))
           ELSE IF min_val = up
           THEN dp_backtrack(dp, cost, i - 1, j, path)
           ELSE dp_backtrack(dp, cost, i, j - 1, path)
  ELSE IF i > 0 THEN dp_backtrack(dp, cost, i - 1, j, path)
  ELSE dp_backtrack(dp, cost, i, j - 1, path)

Reverse(xs) == [k \in 1..Len(xs) |-> xs[Len(xs) + 1 - k]]

_dp_alignment(cost) ==
  Reverse(dp_backtrack(dp_table(cost), cost, cost.shape[1], cost.shape[2], <<>>))

AsdResult(asd, asd_similarity, num_matched) ==
  [asd |-> asd, asd_similarity |-> asd_similarity, num_matched |-> num_matched]

\* calculate_asd_scored with the distance divided by the length of the
\* alignment instead of the number of reference tokens
calculate_asd_scored_per_match(bert, ref_emb, hyp_emb, cost_matrix, alignment, steps) ==
  IF Len(ref_emb) = 0 \/ Len(hyp_emb) = 0
  THEN WithLocals(Returned(AsdResult(One, Zero, 0), steps), bert.cache, <<ref_emb, hyp_emb>>,
                  [path |-> "no_tokens"])
  ELSE IF alignment = <<>>
  THEN WithLocals(Returned(AsdResult(One, Zero, 0), steps), bert.cache, <<ref_emb, hyp_emb>>,
                  [path |-> "no_alignment", cost_matrix |-> cost_matrix])
  ELSE
    LET aligned_distances == [k \in 1..Len(alignment) |-> cost_matrix.at[alignment[k]]]
        total_distance == RSum(aligned_distances)
        asd == PyMax(Zero, PyMin(One, RDiv(total_distance, Rat(Len(alignment), 1))))
    IN  WithLocals(Returned(AsdResult(asd, RSub(One, asd), Len(alignment)), steps),
                   bert.cache, <<ref_emb, hyp_emb>>,
                   [path |-> "aligned", cost_matrix |-> cost_matrix, alignment |-> alignment])

\* lines 291-329 of calculate_asd, with the values of its local variables
calculate_asd_scored(bert, ref_emb, hyp_emb, cost_matrix, alignment, steps) ==
  IF Len(ref_emb) = 0 \/ Len(hyp_emb) = 0
  THEN WithLocals(Returned(AsdResult(One, Zero, 0), steps), bert.cache, <<ref_emb, hyp_emb>>,
                  [path |-> "no_tokens"])
  ELSE IF alignment = <<>>
  THEN WithLocals(Returned(AsdResult(One, Zero, 0), steps), bert.cache, <<ref_emb, hyp_emb>>,
                  [path |-> "no_alignment", cost_matrix |-> cost_matrix])
  ELSE
    LET aligned_distances == [k \in 1..Len(alignment) |-> cost_matrix.at[alignment[k]]]
        num_ref_tokens == Len(ref_emb)
        total_distance == RSum(aligned_distances)
        asd == PyMax(Zero, PyMin(One, RDiv(total_distance, Rat(num_ref_tokens, 1))))
    IN  WithLocals(Returned(AsdResult(asd, RSub(One, asd), Len(alignment)), steps),
                   bert.cache, <<ref_emb, hyp_emb>>,
                   [path |-> "aligned", cost_matrix |-> cost_matrix, alignment |-> alignment])

calculate_asd_aligned(bert, ref_emb, hyp_emb, cost_matrix) ==
  calculate_asd_scored(bert, ref_emb, hyp_emb, cost_matrix, _dp_alignment(cost_matrix),
                       bert.trace \o <<"embed_tokens", "embed_tokens">>)

\* calculate_asd_on without the two tests for empty texts
calculate_asd_on_no_empty_tests(ref, hyp, cache, behaviour, bert, ref_emb, hyp_emb) ==
  IF ref = hyp
  THEN WithLocals(Returned(AsdResult(Zero, One, 0), <<>>), cache, <<>>, NoLocals)
  ELSE IF bert.status = "raise"
  THEN provider_raises(bert.exc, bert.trace, bert.cache, behaviour)
  ELSE IF behaviour = "embed_fails"
  THEN provider_raises("ProviderError", bert.trace \o <<"embed_tokens">>, bert.cache, behaviour)
  ELSE calculate_asd_aligned(bert, ref_emb, hyp_emb, _cosine_distance_matrix(ref_emb, hyp_emb))

\* calculate_asd on the normalized texts ref and hyp, with the outcome bert
\* of _get_bert
calculate_asd_on(ref, hyp, cache, behaviour, bert, ref_emb, hyp_emb) ==
  IF ref = <<>> /\ hyp = <<>>
  THEN WithLocals(Returned(AsdResult(Zero, One, 0), <<>>), cache, <<>>, NoLocals)
  ELSE IF ref = <<>> \/ hyp = <<>>
  THEN WithLocals(Returned(AsdResult(One, Zero, 0), <<>>), cache, <<>>, NoLocals)
  ELSE IF ref = hyp
  THEN WithLocals(Returned(AsdResult(Zero, One, 0), <<>>), cache, <<>>, NoLocals)
  ELSE IF bert.status = "raise"
  THEN provider_raises(bert.exc, bert.trace, bert.cache, behaviour)
  ELSE IF behaviour = "embed_fails"
  THEN provider_raises("ProviderError", bert.trace \o <<"embed_tokens">>, bert.cache, behaviour)
  ELSE calculate_asd_aligned(bert, ref_emb, hyp_emb, _cosine_distance_matrix(ref_emb, hyp_emb))

\* The outcome of calculate_asd(hypothesis, reference, device) when the
\* provider behaves as `behaviour` and returns the token embeddings ref_emb
\* and hyp_emb for the two texts.
calculate_asd(hypothesis, reference, device, cache, behaviour, ref_emb, hyp_emb) ==
  calculate_asd_on(strip(re_sub_ws(lower(reference), 1)),
                   strip(re_sub_ws(lower(hypothesis), 1)),
                   cache, behaviour, asd_get_bert(device, cache, behaviour), ref_emb, hyp_emb)

(***************************************************************************)
(* The texts a caller passes: up to MaxWords words of Vocab, written       *)
(* plainly (lower case, single spaces) or untidily (capitalised, runs of   *)
(* whitespace between and around the words).                               *)
(***************************************************************************)
Vocab == {<<"a">>, <<"u", "m">>}

WordSeqs(n) == UNION {[1..k -> Vocab] : k \in 0..n}

RECURSIVE Join(_, _)
Join(ws, sep) ==
  IF ws = <<>> THEN <<>>
  ELSE IF Len(ws) = 1 THEN ws[1]
  ELSE ws[1] \o sep \o Join(Tail(ws), sep)

Capitalised(w) == [i \in 1..Len(w) |-> IF i = 1 THEN UpperChar(w[i]) ELSE w[i]]

RenderPlain(ws) == Join(ws, <<" ">>)
RenderUntidy(ws) ==
  <<" ">> \o Join([i \in 1..Len(ws) |-> Capitalised(ws[i])], <<"\t", " ">>) \o <<"\n">>

Texts == {RenderPlain(ws) : ws \in WordSeqs(MaxWords)}
           \cup {RenderUntidy(ws) : ws \in WordSeqs(MaxWords)}

\* The filler_words argument: absent, or a list
FillerArgs == {None, Some(<< <<"a">> >>), Some(<< <<"u", "m", " ", "a">>, <<"u", "m">> >>)}

\* The texts passed to calculate_saer
EmbWordSeqs == {<<>>, << <<"a">> >>, << <<"u", "m">> >>, << <<"a">>, <<"u", "m">> >>,
                << <<"u", "m">>, <<"u", "m">> >>}
EmbTexts == {RenderPlain(ws) : ws \in EmbWordSeqs}
              \cup {RenderUntidy(ws) : ws \in {<<>>, << <<"a">> >>}}

\* The texts passed to calculate_semascore
SemaWordSeqs == {<<>>, << <<"a">> >>, << <<"u", "m">> >>, << <<"a">>, <<"u", "m">> >>,
                 << <<"u", "m">>, <<"m">> >>}
SemaTexts == {RenderPlain(ws) : ws \in SemaWordSeqs}
               \cup {RenderUntidy(ws) : ws \in {<<>>, << <<"a">> >>}}

\* The texts passed to calculate_asd, and the token embeddings the provider
\* may return for a text: up to MaxTokens rows
AsdTexts == {RenderPlain(ws) : ws \in {<<>>, << <<"a">> >>, << <<"u", "m">> >>}}
              \cup {RenderUntidy(ws) : ws \in {<<>>, << <<"a">> >>}}
TokenVectors == {<<0, 0>>, <<1, 0>>, <<-1, 0>>, <<3, 4>>}
TokenArraysUpTo(n) == UNION {[1..k -> TokenVectors] : k \in 0..n}

\* The cost matrices passed to _dp_alignment: R x H with R, H >= 1 and at
\* most MaxCells entries, each in [0, 2]
CostValues == {Zero, Rat(1, 2), Rat(2, 1)}
CostShapes == {s \in (1..MaxCells) \X (1..MaxCells) : s[1] * s[2] <= MaxCells}
CostMatrices ==
  UNION {{[shape |-> s, at |-> f] : f \in [(0..(s[1] - 1)) \X (0..(s[2] - 1)) -> CostValues]} :
           s \in CostShapes}

LambdaArgs == {Rat(-1, 2), Zero, Rat(1, 4), Rat(1, 2), One, Rat(3, 2), NaN}
Devices == {"cpu", "cuda"}
\* calculate_asd is called with its default device
AsdDevices == {"cpu"}

(***************************************************************************)
(* The state machine.                                                      *)
(***************************************************************************)
NoCall == [fn |-> "none"]
NoRet == [status |-> "none", exc |-> "", val |-> <<>>]

Init ==
  /\ jiwer_installed \in BOOLEAN
  /\ _labse_cache = {}
  /\ _bert_cache = {}
  /\ pc = "idle"
  /\ call = NoCall
  /\ ret = NoRet
  /\ trace = <<>>
  /\ embedded = <<>>
  /\ locals = NoLocals

\* The call c ends with outcome o (of a function that keeps no cache).
Finish(c, o) ==
  /\ call' = c
  /\ ret' = [status |-> o.status, exc |-> o.exc, val |-> o.val]
  /\ trace' = o.trace
  /\ embedded' = <<>>
  /\ locals' = NoLocals
  /\ pc' = "done"

\* The call c ends with outcome o, which tells what the provider returned.
FinishEmb(c, o) ==
  /\ call' = c
  /\ ret' = [status |-> o.status, exc |-> o.exc, val |-> o.val]
  /\ trace' = o.trace
  /\ embedded' = o.emb
  /\ locals' = o.locals
  /\ pc' = "done"

FinishLabse(c, o) == FinishEmb(c, o) /\ _labse_cache' = o.cache
FinishBert(c, o) == FinishEmb(c, o) /\ _bert_cache' = o.cache

CallWer ==
  /\ pc = "idle"
  /\ \E h \in Texts, r \in Texts :
       \E o \in calculate_wer(h, r, jiwer_installed) :
         Finish([fn |-> "calculate_wer", hypothesis |-> h, reference |-> r], o)
  /\ UNCHANGED <<jiwer_installed, _labse_cache, _bert_cache>>

CallCer ==
  /\ pc = "idle"
  /\ \E h \in Texts, r \in Texts :
       \E o \in calculate_cer(h, r, jiwer_installed) :
         Finish([fn |-> "calculate_cer", hypothesis |-> h, reference |-> r], o)
  /\ UNCHANGED <<jiwer_installed, _labse_cache, _bert_cache>>

CallStringMetrics ==
  /\ pc = "idle"
  /\ \E h \in Texts, r \in Texts, fw \in FillerArgs :
       \E o \in calculate_string_metrics(h, r, fw, jiwer_installed) :
         Finish([fn |-> "calculate_string_metrics", hypothesis |-> h, reference |-> r,
                 filler_words |-> fw], o)
  /\ UNCHANGED <<jiwer_installed, _labse_cache, _bert_cache>>

\* The caller takes the outcome and is ready for its next call.
Return ==
  /\ pc = "done"
  /\ pc' = "idle"
  /\ call' = NoCall
  /\ ret' = NoRet
  /\ trace' = <<>>
  /\ embedded' = <<>>
  /\ locals' = NoLocals
  /\ UNCHANGED <<jiwer_installed, _labse_cache, _bert_cache>>

NextWer == CallWer \/ CallCer \/ CallStringMetrics \/ Return

SpecWer == Init /\ [][NextWer]_vars

(***************************************************************************)
(* Properties of wer.py                                                    *)
(***************************************************************************)
Done(fn) == pc = "done" /\ call.fn = fn
CallRef == _normalize(call.reference)
CallHyp == _normalize(call.hypothesis)
BothEmpty == CallRef = <<>> /\ CallHyp = <<>>
OneEmpty == (CallRef = <<>>) # (CallHyp = <<>>)
EqualNonEmpty == CallRef # <<>> /\ CallRef = CallHyp
NonEdge == CallRef # <<>> /\ CallHyp # <<>> /\ CallRef # CallHyp
JiwerComputations == {"jiwer.wer", "jiwer.cer", "jiwer.mer", "jiwer.wip", "jiwer.wil"}
NoJiwerComputation == \A k \in 1..Len(trace) : trace[k] \notin JiwerComputations

\* The edge-case table: the value of wer, cer and mer
EdgeRate == IF OneEmpty THEN One ELSE Zero

\* C1: in calculate_wer, calculate_cer and calculate_string_metrics, when the
\* normalized strings are both empty, exactly one is empty, or they are
\* equal, the call returns the table's values (0 / 1 / 0 for wer, cer and
\* mer; wip, wil and word_accuracy accordingly) without any jiwer
\* computation, whether or not the jiwer backend is there.
C1_EdgeCasesDecidedWithoutBackend ==
  (pc = "done" /\ call.fn \in {"calculate_wer", "calculate_cer", "calculate_string_metrics"}
     /\ (BothEmpty \/ OneEmpty \/ EqualNonEmpty))
  => /\ ret.status = "ok"
     /\ NoJiwerComputation
     /\ IF call.fn = "calculate_string_metrics"
        THEN /\ ret.val.wer = EdgeRate /\ ret.val.cer = EdgeRate /\ ret.val.mer = EdgeRate
             /\ ret.val.wip = RSub(One, EdgeRate) /\ ret.val.wil = EdgeRate
             /\ ret.val.word_accuracy = RSub(One, EdgeRate)
        ELSE ret.val = EdgeRate

\* The Levenshtein distance of two sequences with unit costs, by its
\* defining recursion
RECURSIVE LevenshteinDistance(_, _)
LevenshteinDistance(a, b) ==
  IF a = <<>> THEN Len(b)
  ELSE IF b = <<>> THEN Len(a)
  ELSE Min3(LevenshteinDistance(Tail(a), b) + 1,
            LevenshteinDistance(a, Tail(b)) + 1,
            LevenshteinDistance(Tail(a), Tail(b)) + (IF Head(a) = Head(b) THEN 0 ELSE 1))

RefWords == split(CallRef)
HypWords == split(CallHyp)
NoWordMatches == \A i \in 1..Len(RefWords), j \in 1..Len(HypWords) : RefWords[i] # HypWords[j]
LevenshteinRate == Rat(LevenshteinDistance(RefWords, HypWords), Len(RefWords))

\* C2: with the jiwer backend there, calculate_wer on non-empty, different
\* normalized strings returns LevenshteinDistance(ref_words, hyp_words) /
\* len(ref_words): a value > 0, equal to 1 when no word matches and the
\* lengths are equal, above 1 when the hypothesis has more than
\* len(ref_words) extra words; calculate_string_metrics returns under "wer"
\* the value of calculate_wer (the edge-case value or that quotient) and
\* word_accuracy = max(0, 1 - wer), for every input.
C2_WerIsLevenshteinRate ==
  /\ (Done("calculate_wer") /\ jiwer_installed /\ NonEdge)
     => /\ ret.status = "ok"
        /\ ret.val = LevenshteinRate
        /\ RLt(Zero, ret.val)
        /\ (NoWordMatches /\ Len(RefWords) = Len(HypWords)) => ret.val = One
        /\ (Len(HypWords) - Len(RefWords) > Len(RefWords)) => RLt(One, ret.val)
  /\ (Done("calculate_string_metrics") /\ jiwer_installed)
     => /\ ret.status = "ok"
        /\ ret.val.wer = (IF NonEdge THEN LevenshteinRate ELSE EdgeRate)
        /\ ret.val.wer \in {o.val : o \in calculate_wer(call.hypothesis, call.reference, TRUE)}
        /\ ret.val.word_accuracy = (IF RLt(One, ret.val.wer) THEN Zero
                                    ELSE RSub(One, ret.val.wer))

\* calculate_wer has returned a rate above 1
C2_WerAboveOne ==
  /\ Done("calculate_wer") /\ NonEdge /\ ret.status = "ok"
  /\ RLt(One, ret.val) /\ ret.val = LevenshteinRate

\* The filler list of the call and its phrases as lists of lower-case words
CallFillers ==
  IF call.filler_words = None THEN DEFAULT_FILLER_WORDS
  ELSE CHOOSE fw \in call.filler_words : TRUE
FillerPhrases(fillers) == {split(lower(fillers[k])) : k \in 1..Len(fillers)} \ {<<>>}

\* The word error rate of the edge-case table and the Levenshtein quotient,
\* of two normalized strings
WerOf(ref, hyp) ==
  IF ref = <<>> /\ hyp = <<>> THEN Zero
  ELSE IF ref = <<>> \/ hyp = <<>> THEN One
  ELSE IF ref = hyp THEN Zero
  ELSE Rat(LevenshteinDistance(split(ref), split(hyp)), Len(split(ref)))

\* C12: the wer_normalized that calculate_string_metrics returns is the word
\* error rate, with the same edge-case table, of the filler-stripped
\* normalized strings, also when a raw string is empty or made of fillers
\* only.
C12_NormalizedWerOfStrippedStrings ==
  (Done("calculate_string_metrics") /\ ret.status = "ok")
  => ret.val.wer_normalized = WerOf(_strip_fillers(CallRef, CallFillers),
                                    _strip_fillers(CallHyp, CallFillers))

\* The places <<first, last>> (in words) where a phrase of the list occurs
Occurrences(words, phrases) ==
  {<<p, p + Len(fw) - 1>> : <<p, fw>> \in
     {x \in (1..Len(words)) \X phrases :
        x[1] + Len(x[2]) - 1 <= Len(words)
        /\ SubSeq(words, x[1], x[1] + Len(x[2]) - 1) = x[2]}}

\* The ways hypw is refw with phrases of the list inserted: each way is the
\* set of places of the inserted phrases; p is the place of hypw's head.
RECURSIVE Insertions(_, _, _, _)
Insertions(refw, hypw, phrases, p) ==
  IF hypw = <<>> THEN (IF refw = <<>> THEN {{}} ELSE {})
  ELSE (IF refw # <<>> /\ Head(refw) = Head(hypw)
        THEN Insertions(Tail(refw), Tail(hypw), phrases, p + 1)
        ELSE {})
       \cup
       UNION {IF Len(fw) <= Len(hypw) /\ SubSeq(hypw, 1, Len(fw)) = fw
              THEN {I \cup {<<p, p + Len(fw) - 1>>} :
                      I \in Insertions(refw, SubSeq(hypw, Len(fw) + 1, Len(hypw)),
                                       phrases, p + Len(fw))}
              ELSE {} : fw \in phrases}

\* The reference has no filler and the hypothesis is the reference with
\* fillers inserted
FillersInserted ==
  /\ RefWords # <<>>
  /\ Occurrences(RefWords, FillerPhrases(CallFillers)) = {}
  /\ Len(HypWords) > Len(RefWords)
  /\ Insertions(RefWords, HypWords, FillerPhrases(CallFillers), 1) # {}

\* Every occurrence of a filler in the hypothesis lies inside an inserted one
OnlyInsertedOccur ==
  \E I \in Insertions(RefWords, HypWords, FillerPhrases(CallFillers), 1) :
    \A occ \in Occurrences(HypWords, FillerPhrases(CallFillers)) :
      \E iv \in I : iv[1] <= occ[1] /\ occ[2] <= iv[2]

FillersIgnored ==
  /\ ret.status = "ok"
  /\ RLt(Zero, ret.val.wer)
  /\ ret.val.wer_normalized = Zero
  /\ RLt(ret.val.wer_normalized, ret.val.wer)

\* C13 as stated: with the jiwer backend there, when the reference is
\* non-empty and has no filler and the hypothesis is the reference with
\* fillers of the list inserted between or around its words,
\* calculate_string_metrics returns wer > 0 and wer_normalized = 0.
C13_InsertedFillersIgnored ==
  (Done("calculate_string_metrics") /\ jiwer_installed /\ FillersInserted)
  => FillersIgnored

\* C13, amended: the same, provided every occurrence of a filler phrase in
\* the hypothesis lies inside one of the inserted fillers (no phrase of the
\* list is formed by an inserted filler together with a word next to it).
C13_InsertedFillersIgnoredUnlessJoined ==
  (Done("calculate_string_metrics") /\ jiwer_installed /\ FillersInserted
     /\ OnlyInsertedOccur)
  => FillersIgnored

\* two fillers inserted next to the reference's words have been ignored,
\* under a list that holds a two-word filler
C13_FillersAroundIgnored ==
  /\ Done("calculate_string_metrics") /\ jiwer_installed /\ FillersInserted
  /\ OnlyInsertedOccur
  /\ Len(CallFillers) = 2
  /\ Len(HypWords) = Len(RefWords) + 2
  /\ FillersIgnored
  /\ RLt(One, ret.val.wer)

\* calculate_saer called with texts, a lambda_ and a device of the given sets
SaerCalled(texts, lambdas, devices) ==
  /\ pc = "idle"
  /\ \E h \in texts, r \in texts, l \in lambdas, dev \in devices :
       \E o \in calculate_saer(h, r, l, dev, _labse_cache, jiwer_installed) :
         FinishLabse([fn |-> "calculate_saer", hypothesis |-> h, reference |-> r,
                      lambda_ |-> l, device |-> dev], o)
  /\ UNCHANGED <<jiwer_installed, _bert_cache>>

CallSaer == SaerCalled(EmbTexts, LambdaArgs, Devices)

NextSaer == CallSaer \/ Return

SpecSaer == Init /\ [][NextSaer]_vars

(***************************************************************************)
(* Properties of saer.py                                                   *)
(***************************************************************************)
InUnitInterval(x) == RLe(Zero, x) /\ RLe(x, One)

\* C3: calculate_saer with lambda_ outside [0,1], NaN included, raises
\* ValueError whatever the texts (empty and identical ones too) before any
\* other step: no step of jiwer or of the embedding provider is made,
\* nothing is embedded, the model caches stay as they were and no result is
\* returned.
C3_InvalidLambdaRejectedFirst ==
  [][(pc' = "done" /\ call'.fn = "calculate_saer" /\ ~InUnitInterval(call'.lambda_))
       => /\ ret'.status = "raise" /\ ret'.exc = "ValueError" /\ ret'.val = <<>>
          /\ trace' = <<>>
          /\ embedded' = <<>>
          /\ _labse_cache' = _labse_cache
          /\ _bert_cache' = _bert_cache]_vars

\* a NaN lambda_ with identical texts has been rejected, the model cached
C3_NaNRejectedOnIdenticalTexts ==
  /\ Done("calculate_saer") /\ IsNaN(call.lambda_) /\ EqualNonEmpty
  /\ ret.status = "raise" /\ ret.exc = "ValueError"
  /\ _labse_cache # {}

\* C4: calculate_saer with lambda_ = 1 returns saer = f_form, and f_form is
\* the value of calculate_wer on the same texts (the edge-case value, or
\* the Levenshtein rate, also above 1); with lambda_ = 0 it returns
\* saer = epsilon_sem; whatever the embeddings.
C4_LambdaEndpoints ==
  (Done("calculate_saer") /\ ret.status = "ok")
  => /\ call.lambda_ = One
        => /\ ret.val.saer = ret.val.f_form
           /\ ret.val.f_form = (IF NonEdge THEN LevenshteinRate ELSE EdgeRate)
           /\ ret.val.f_form \in {o.val : o \in calculate_wer(call.hypothesis, call.reference,
                                                              jiwer_installed)}
     /\ call.lambda_ = Zero => ret.val.saer = ret.val.epsilon_sem

\* lambda_ = 1 has returned a saer above 1 that differs from epsilon_sem
C4_PureFormAboveOne ==
  /\ Done("calculate_saer") /\ ret.status = "ok" /\ call.lambda_ = One
  /\ RLt(One, ret.val.saer) /\ ret.val.epsilon_sem # ret.val.saer

\* l * f + (1 - l) * e over the common denominator
Blend(l, f, e) == Rat(l[1] * f[1] * e[2] + (l[2] - l[1]) * e[1] * f[2], l[2] * f[2] * e[2])

\* C5: for lambda_ in [0,1] calculate_saer returns saer = f_form =
\* epsilon_sem = 0 when the normalized texts are both empty or equal, and
\* = 1 when exactly one is empty, without a step of jiwer or of the
\* embedding provider; and whenever it returns, saer = lambda_ * f_form +
\* (1 - lambda_) * epsilon_sem with the returned lambda_ the argument.
C5_EdgeCasesAndBlend ==
  (Done("calculate_saer") /\ InUnitInterval(call.lambda_))
  => /\ (BothEmpty \/ OneEmpty \/ EqualNonEmpty)
        => /\ ret.status = "ok"
           /\ ret.val = SaerResult(EdgeRate, EdgeRate, EdgeRate, call.lambda_)
           /\ trace = <<>>
           /\ embedded = <<>>
     /\ ret.status = "ok"
        => /\ ret.val.lambda_ = call.lambda_
           /\ ret.val.saer = Blend(call.lambda_, ret.val.f_form, ret.val.epsilon_sem)

\* a proper blend has been returned on the non-edge path
C5_ProperBlend ==
  /\ Done("calculate_saer") /\ ret.status = "ok" /\ NonEdge
  /\ call.lambda_ = Rat(1, 4)
  /\ ret.val.f_form # ret.val.epsilon_sem
  /\ ret.val.saer # ret.val.f_form /\ ret.val.saer # ret.val.epsilon_sem

\* The cosine of the two sentence embeddings of the call as the floating
\* point division gives it: the quotient, one step off when it is exactly
\* 1 or -1 and the provider's rounding says so
CosineOfCall ==
  LET q == RDiv(Rat(Dot(embedded[1], embedded[2]), 1),
                Rat(ISqrt(Dot(embedded[1], embedded[1])) * ISqrt(Dot(embedded[2], embedded[2])), 1))
  IN  IF q = One \/ q = Rat(-1, 1) THEN RAdd(q, Rat(embedded[3][1], 64)) ELSE q

ZeroVector(v) == Dot(v, v) = 0

\* C19: the epsilon_sem that calculate_saer returns lies in [0,1]; past the
\* edge cases it is 1 when one of the two sentence embeddings has a norm
\* below 1e-12 (nothing is divided), else 1 for a negative cosine, 0 for a
\* cosine above 1 (rounding) and 1 - cosine otherwise.
C19_EpsilonSemInUnitInterval ==
  (Done("calculate_saer") /\ ret.status = "ok")
  => /\ InUnitInterval(ret.val.epsilon_sem)
     /\ NonEdge
        => ret.val.epsilon_sem =
             (IF ZeroVector(embedded[1]) \/ ZeroVector(embedded[2]) THEN One
              ELSE IF RLt(CosineOfCall, Zero) THEN One
              ELSE IF RLt(One, CosineOfCall) THEN Zero
              ELSE RSub(One, CosineOfCall))

\* a cosine that rounding has put above 1 has given epsilon_sem = 0
C19_CosineAboveOne ==
  /\ Done("calculate_saer") /\ ret.status = "ok" /\ NonEdge
  /\ ~ZeroVector(embedded[1]) /\ ~ZeroVector(embedded[2])
  /\ RLt(One, CosineOfCall)
  /\ ret.val.epsilon_sem = Zero

\* calculate_semascore called with texts and a device of the given sets
SemascoreCalled(texts, devices) ==
  /\ pc = "idle"
  /\ \E h \in texts, r \in texts, dev \in devices :
       \E o \in calculate_semascore(h, r, dev, _bert_cache, jiwer_installed) :
         FinishBert([fn |-> "calculate_semascore", hypothesis |-> h, reference |-> r,
                     device |-> dev], o)
  /\ UNCHANGED <<jiwer_installed, _labse_cache>>

CallSemascore == SemascoreCalled(SemaTexts, Devices)

NextSema == CallSemascore \/ Return

SpecSema == Init /\ [][NextSema]_vars

(***************************************************************************)
(* Properties of semascore.py                                              *)
(***************************************************************************)
\* C6: calculate_semascore returns 1.0 when both normalized texts are empty,
\* 0.0 when exactly one is empty and 1.0 when they are equal (so for x
\* against x, also written with other case or whitespace), and returns it
\* before any step of the embedding provider: nothing is imported, loaded
\* or embedded.
C6_SemascoreEdgeCases ==
  (Done("calculate_semascore") /\ (BothEmpty \/ OneEmpty \/ EqualNonEmpty))
  => /\ ret.status = "ok"
     /\ ret.val = (IF OneEmpty THEN Zero ELSE One)
     /\ trace = <<>>
     /\ embedded = <<>>

\* texts that differ in case and whitespace only have scored 1.0, no model
\* being cached
C6_SameUpToCaseAndSpace ==
  /\ Done("calculate_semascore") /\ EqualNonEmpty
  /\ call.reference # call.hypothesis
  /\ ret.status = "ok" /\ ret.val = One
  /\ _bert_cache = {}

\* The per-segment scores and weights of the call (phases 1 to 3), from the
\* embeddings the provider returned
SegmentLists ==
  semascore_loop(_align_words(RefWords, HypWords), 1, embedded[1],
                 Norm(embedded[1][CallRef]), embedded[2][1], jiwer_installed)

WeightedMean(scores, weights) ==
  RDiv(RSum([k \in 1..Len(scores) |-> RMul(scores[k], weights[k])]), RSum(weights))
UnweightedMean(scores) == RDiv(RSum(scores), Rat(Len(scores), 1))

\* C7 as stated: on the non-edge path the value returned is the weighted
\* mean of the per-segment scores, or their unweighted mean when the total
\* weight is below 1e-12 (or is no number at all, the weights being
\* quotients by a zero norm); and every value returned lies in [0,1].
C7_AlwaysAMeanOfScores ==
  /\ (Done("calculate_semascore") /\ NonEdge /\ ret.status = "ok")
     => \E l \in SegmentLists :
          ret.val = (IF IsNaN(RSum(l.weights)) \/ BelowEps(RSum(l.weights))
                     THEN UnweightedMean(l.scores)
                     ELSE WeightedMean(l.scores, l.weights))
  /\ (Done("calculate_semascore") /\ ret.status = "ok") => InUnitInterval(ret.val)

\* C7, amended: on the non-edge path calculate_semascore returns 0.0 when
\* the norm of the reference's sentence embedding is below 1e-12;
\* otherwise it returns the weighted mean sum(score_k * weight_k) /
\* sum(weight_k) of the per-segment scores, or their unweighted mean when
\* the total weight is below 1e-12; and every value returned lies in [0,1].
C7_MeanUnlessZeroReferenceNorm ==
  /\ (Done("calculate_semascore") /\ NonEdge /\ ret.status = "ok")
     => IF BelowEps(Norm(embedded[1][CallRef]))
        THEN ret.val = Zero /\ locals.path = "zero_ref_norm"
        ELSE /\ locals.path = "aggregate"
             /\ [scores |-> locals.scores, weights |-> locals.weights]
                  \in {[scores |-> l.scores, weights |-> l.weights] : l \in SegmentLists}
             /\ ret.val = (IF BelowEps(RSum(locals.weights))
                           THEN UnweightedMean(locals.scores)
                           ELSE WeightedMean(locals.scores, locals.weights))
  /\ (Done("calculate_semascore") /\ ret.status = "ok") => InUnitInterval(ret.val)

\* a weighted mean that is not the unweighted one has been returned
C7_ProperWeightedMean ==
  /\ Done("calculate_semascore") /\ NonEdge /\ ret.status = "ok"
  /\ locals.path = "aggregate"
  /\ Len(locals.scores) = 2
  /\ ~BelowEps(RSum(locals.weights))
  /\ ret.val = WeightedMean(locals.scores, locals.weights)
  /\ ret.val # UnweightedMean(locals.scores)

\* the unweighted mean has been returned, the total weight being negligible
C7_FallbackToUnweightedMean ==
  /\ Done("calculate_semascore") /\ NonEdge /\ ret.status = "ok"
  /\ locals.path = "aggregate"
  /\ BelowEps(RSum(locals.weights))
  /\ ret.val = UnweightedMean(locals.scores)

\* The provider is asked for token embeddings only when calculate_asd gets
\* past its edge cases and _get_bert (lines 278-291).
asd_reaches_embed(hypothesis, reference, device, cache, behaviour) ==
  LET ref == _normalize(reference)
      hyp == _normalize(hypothesis)
  IN  /\ ref # <<>> /\ hyp # <<>> /\ ref # hyp
      /\ asd_get_bert(device, cache, behaviour).status = "ok"
      /\ behaviour # "embed_fails"

TokenArraysFor(hypothesis, reference, device, cache, behaviour, arrays) ==
  IF asd_reaches_embed(hypothesis, reference, device, cache, behaviour)
  THEN arrays ELSE {<<>>}

\* What the loading of the model can do: nothing when the model is cached
BertBehavioursFor(device, cache) ==
  IF device \in cache THEN {"ok", "embed_fails"} ELSE BertBehaviours

\* calculate_asd called with texts of the given set, the provider giving
\* token embeddings of the given set
AsdCalled(texts, arrays) ==
  /\ pc = "idle"
  /\ \E h \in texts, r \in texts, dev \in AsdDevices :
       \E behaviour \in BertBehavioursFor(dev, _bert_cache) :
         \E ref_emb \in TokenArraysFor(h, r, dev, _bert_cache, behaviour, arrays),
            hyp_emb \in TokenArraysFor(h, r, dev, _bert_cache, behaviour, arrays) :
           FinishBert([fn |-> "calculate_asd", hypothesis |-> h, reference |-> r,
                       device |-> dev],
                      calculate_asd(h, r, dev, _bert_cache, behaviour, ref_emb, hyp_emb))
  /\ UNCHANGED <<jiwer_installed, _labse_cache>>

CallAsd == AsdCalled(AsdTexts, TokenArraysUpTo(MaxTokens))

NextAsd == CallAsd \/ Return

\* calculate_asd never touches jiwer
InitAsd == Init /\ jiwer_installed

SpecAsd == InitAsd /\ [][NextAsd]_vars

(***************************************************************************)
(* Properties of calculate_asd                                             *)
(***************************************************************************)
\* C8: calculate_asd returns {asd 0, asd_similarity 1, num_matched 0} when
\* both normalized texts are empty, {1, 0, 0} when exactly one is empty and
\* {0, 1, 0} when they are equal, before any step of the embedding
\* provider; and on the path after these it returns {1, 0, 0} when the
\* provider gives no row for the reference or for the hypothesis.
C8_AsdEdgeCases ==
  /\ (Done("calculate_asd") /\ (BothEmpty \/ OneEmpty \/ EqualNonEmpty))
     => /\ ret.status = "ok"
        /\ ret.val = AsdResult(EdgeRate, RSub(One, EdgeRate), 0)
        /\ trace = <<>>
        /\ embedded = <<>>
  /\ (Done("calculate_asd") /\ NonEdge /\ ret.status = "ok"
        /\ (Len(embedded[1]) = 0 \/ Len(embedded[2]) = 0))
     => ret.val = AsdResult(One, Zero, 0)

\* the provider has given rows for the hypothesis and none for the reference
C8_NoReferenceTokens ==
  /\ Done("calculate_asd") /\ NonEdge /\ ret.status = "ok"
  /\ Len(embedded[1]) = 0 /\ Len(embedded[2]) > 0
  /\ ret.val = AsdResult(One, Zero, 0)

\* The sum of the costs of the pairs of an alignment
RECURSIVE MatchedCost(_, _)
MatchedCost(cost, alignment) ==
  IF alignment = <<>> THEN Zero
  ELSE RAdd(cost.at[Head(alignment)], MatchedCost(cost, Tail(alignment)))

\* min(1, max(0, x))
ClampUnit(x) == IF RLt(x, Zero) THEN Zero ELSE IF RLt(One, x) THEN One ELSE x

CallDpAlignment ==
  /\ pc = "idle"
  /\ \E cost \in CostMatrices :
       /\ call' = [fn |-> "_dp_alignment", cost |-> cost]
       /\ ret' = [status |-> "ok", exc |-> "", val |-> _dp_alignment(cost)]
       /\ locals' = [path |-> "dp", dp |-> dp_table(cost)]
  /\ trace' = <<>>
  /\ embedded' = <<>>
  /\ pc' = "done"
  /\ UNCHANGED <<jiwer_installed, _labse_cache, _bert_cache>>

NextDp == CallDpAlignment \/ Return

SpecDp == InitAsd /\ [][NextDp]_vars

(***************************************************************************)
(* Properties of _dp_alignment                                             *)
(***************************************************************************)
\* The order-preserving one-to-one partial matchings of R reference tokens
\* to H hypothesis tokens: sets of pairs, any two of them increasing in
\* both tokens
MonotoneMatchings(R, H) ==
  {m \in SUBSET ((0..(R - 1)) \X (0..(H - 1))) :
     \A p \in m, q \in m : p = q \/ (p[1] < q[1] /\ p[2] < q[2])
                                  \/ (q[1] < p[1] /\ q[2] < p[2])}

RECURSIVE SumOver(_, _)
SumOver(cost, m) ==
  IF m = {} THEN Zero
  ELSE LET p == CHOOSE q \in m : TRUE
       IN  RAdd(cost.at[p], SumOver(cost, m \ {p}))

\* The cost of matching m: its pairs' costs and 1 for every token left out
MatchingCost(cost, m) ==
  RAdd(SumOver(cost, m),
       Rat((cost.shape[1] - Cardinality(m)) + (cost.shape[2] - Cardinality(m)), 1))

\* The least of a non-empty set of numbers
Least(xs) == CHOOSE x \in xs : \A y \in xs : RLe(x, y)

PairsOf(alignment) == {alignment[k] : k \in 1..Len(alignment)}

\* C10: for an R x H cost matrix (R, H >= 1, entries in [0, 2]) _dp_alignment
\* fills dp with dp[0][0] = 0, dp[i][0] = i, dp[0][j] = j and dp[i][j] =
\* min(dp[i-1][j-1] + cost[i-1][j-1], dp[i-1][j] + 1, dp[i][j-1] + 1); the
\* alignment returned is an order-preserving one-to-one partial matching,
\* listed in increasing order, whose cost (the costs of its pairs, plus
\* R - matched, plus H - matched) is dp[R][H]; and dp[R][H] is the least
\* cost of all such matchings.
C10_DpAlignmentIsMinimal ==
  Done("_dp_alignment")
  => LET cost == call.cost
         R == cost.shape[1]
         H == cost.shape[2]
         dp(i, j) == locals.dp[i + 1][j + 1]
         alignment == ret.val
     IN  /\ Len(locals.dp) = R + 1
         /\ \A i \in 0..R : Len(locals.dp[i + 1]) = H + 1
         /\ dp(0, 0) = Zero
         /\ \A i \in 0..R : dp(i, 0) = Rat(i, 1)
         /\ \A j \in 0..H : dp(0, j) = Rat(j, 1)
         /\ \A i \in 1..R, j \in 1..H :
              dp(i, j) = Least({RAdd(dp(i - 1, j - 1), cost.at[<<i - 1, j - 1>>]),
                                RAdd(dp(i - 1, j), One), RAdd(dp(i, j - 1), One)})
         /\ \A k \in 1..(Len(alignment) - 1) :
              alignment[k][1] < alignment[k + 1][1] /\ alignment[k][2] < alignment[k + 1][2]
         /\ PairsOf(alignment) \in MonotoneMatchings(R, H)
         /\ Cardinality(PairsOf(alignment)) = Len(alignment)
         /\ MatchingCost(cost, PairsOf(alignment)) = dp(R, H)
         /\ \A m \in MonotoneMatchings(R, H) : RLe(dp(R, H), MatchingCost(cost, m))

\* a 2 x 3 matrix has been aligned with two matches and a skipped token, at
\* a cost that another matching of two pairs exceeds
C10_TwoMatchesOneSkip ==
  /\ Done("_dp_alignment")
  /\ call.cost.shape = <<2, 3>>
  /\ Len(ret.val) = 2
  /\ RLt(Zero, MatchingCost(call.cost, PairsOf(ret.val)))
  /\ \E m \in MonotoneMatchings(2, 3) :
       /\ Cardinality(m) = 2
       /\ RLt(MatchingCost(call.cost, PairsOf(ret.val)), MatchingCost(call.cost, m))

\* The three candidates at cell (i, j), i > 0 and j > 0, of the table dp
DiagOf(dp, cost, i, j) == RAdd(dp[i][j], cost.at[<<i - 1, j - 1>>])
UpOf(dp, i, j) == RAdd(dp[i][j + 1], One)
LeftOf(dp, i, j) == RAdd(dp[i + 1][j], One)

\* The move prescribed at cell (i, j): diagonal before up before left among
\* the candidates that attain the minimum; on a border the only move
RuleMove(dp, cost, i, j) ==
  IF i > 0 /\ j > 0
  THEN LET least == Least({DiagOf(dp, cost, i, j), UpOf(dp, i, j), LeftOf(dp, i, j)})
       IN  IF DiagOf(dp, cost, i, j) = least THEN "diag"
           ELSE IF UpOf(dp, i, j) = least THEN "up"
           ELSE "left"
  ELSE IF i > 0 THEN "up"
  ELSE "left"

\* The pairs of the diagonal moves prescribed from (i, j) down to (0, 0), in
\* increasing order
RECURSIVE RulePath(_, _, _, _)
RulePath(dp, cost, i, j) ==
  IF i = 0 /\ j = 0 THEN <<>>
  ELSE IF RuleMove(dp, cost, i, j) = "diag"
       THEN Append(RulePath(dp, cost, i - 1, j - 1), <<i - 1, j - 1>>)
       ELSE IF RuleMove(dp, cost, i, j) = "up" THEN RulePath(dp, cost, i - 1, j)
       ELSE RulePath(dp, cost, i, j - 1)

\* The cells the prescribed moves pass through from (i, j)
RECURSIVE RuleCells(_, _, _, _)
RuleCells(dp, cost, i, j) ==
  IF i = 0 /\ j = 0 THEN {<<0, 0>>}
  ELSE {<<i, j>>} \cup
       (IF RuleMove(dp, cost, i, j) = "diag" THEN RuleCells(dp, cost, i - 1, j - 1)
        ELSE IF RuleMove(dp, cost, i, j) = "up" THEN RuleCells(dp, cost, i - 1, j)
        ELSE RuleCells(dp, cost, i, j - 1))

\* C11: the path _dp_alignment returns is the one obtained by backtracking
\* from (R, H) with, at every cell with i > 0 and j > 0, the diagonal move
\* when it attains the minimum of the three candidates, else the up move
\* when it attains it, else the left move, and on a border the only move:
\* the path is determined by the cost matrix alone, also when several
\* optimal paths have the same cost.
C11_BacktrackFollowsTieBreak ==
  Done("_dp_alignment")
  => ret.val = RulePath(locals.dp, call.cost, call.cost.shape[1], call.cost.shape[2])

\* the backtracking has passed a cell where up and left tie below the
\* diagonal, has moved up there, and the path going left instead is another
\* one
C11_TieBetweenUpAndLeft ==
  /\ Done("_dp_alignment")
  /\ \E c \in RuleCells(locals.dp, call.cost, call.cost.shape[1], call.cost.shape[2]) :
       /\ c[1] > 0 /\ c[2] > 0
       /\ UpOf(locals.dp, c[1], c[2]) = LeftOf(locals.dp, c[1], c[2])
       /\ RLt(UpOf(locals.dp, c[1], c[2]), DiagOf(locals.dp, call.cost, c[1], c[2]))
       /\ RulePath(locals.dp, call.cost, c[1] - 1, c[2])
            # RulePath(locals.dp, call.cost, c[1], c[2] - 1)
       /\ \A k \in 1..Len(RulePath(locals.dp, call.cost, c[1] - 1, c[2])) :
            \E q \in 1..Len(ret.val) :
              ret.val[q] = RulePath(locals.dp, call.cost, c[1] - 1, c[2])[k]

(***************************************************************************)
(* _normalize and _strip_fillers called directly.                          *)
(***************************************************************************)
\* The texts passed to _normalize: every string of up to MaxChars characters
NormChars == {"a", "A", " ", "\t", "\n"}
NormTexts == UNION {[1..k -> NormChars] : k \in 0..MaxChars}

\* The texts and filler lists passed to _strip_fillers
StripVocab == {<<"a">>, <<"m">>, <<"a", "m">>, <<"a", "-", "m">>}
StripTexts == {RenderPlain(ws) : ws \in UNION {[1..k -> StripVocab] : k \in 0..MaxStripWords}}
StripFillerLists ==
  {<<>>, << <<"a">> >>, << <<"M">> >>, << <<"a", " ", "m">> >>,
   << <<"a">>, <<"a", " ", "m">> >>, << <<"m">>, <<"a", "m">> >>,
   << <<"a", " ", "m">>, <<"a", "m", "a", "m">> >>}

CallNormalize ==
  /\ pc = "idle"
  /\ \E text \in NormTexts :
       /\ call' = [fn |-> "_normalize", text |-> text]
       /\ ret' = [status |-> "ok", exc |-> "", val |-> _normalize(text)]
  /\ trace' = <<>>
  /\ embedded' = <<>>
  /\ locals' = NoLocals
  /\ pc' = "done"
  /\ UNCHANGED <<jiwer_installed, _labse_cache, _bert_cache>>

CallStripFillers ==
  /\ pc = "idle"
  /\ \E text \in StripTexts, filler_words \in StripFillerLists :
       /\ call' = [fn |-> "_strip_fillers", text |-> text, filler_words |-> filler_words]
       /\ ret' = [status |-> "ok", exc |-> "", val |-> _strip_fillers(text, filler_words)]
       /\ locals' = [path |-> "strip", sorted_fillers |-> sorted_by_neg_len(filler_words)]
  /\ trace' = <<>>
  /\ embedded' = <<>>
  /\ pc' = "done"
  /\ UNCHANGED <<jiwer_installed, _labse_cache, _bert_cache>>

NextText == CallNormalize \/ CallStripFillers \/ Return

\* neither function touches jiwer
SpecText == InitAsd /\ [][NextText]_vars

(***************************************************************************)
(* Properties of _normalize and _strip_fillers                             *)
(***************************************************************************)
IsUpper(c) == c \in {"A", "U", "M"}
NonSpace(text) == SelectSeq(text, LAMBDA c : ~IsSpace(c))

IsLetter(c) == ~IsSpace(c) /\ c # "-"

\* The filler (of letters and single spaces) occurs in text at i, whatever
\* the case, and no letter stands right before or right after it
DelimitedAt(text, filler, i) ==
  /\ Len(filler) > 0
  /\ i + Len(filler) - 1 <= Len(text)
  /\ \A k \in 1..Len(filler) : LowerChar(text[i + k - 1]) = LowerChar(filler[k])
  /\ i = 1 \/ ~IsLetter(text[i - 1])
  /\ i + Len(filler) > Len(text) \/ ~IsLetter(text[i + Len(filler)])

\* The positions of text that lie in a delimited occurrence of a filler
Covered(text, fillers) ==
  {p \in 1..Len(text) :
     \E k \in 1..Len(fillers), i \in 1..Len(text) :
       DelimitedAt(text, fillers[k], i) /\ i <= p /\ p < i + Len(fillers[k])}

\* The words of text from position i on that no position of cov touches;
\* word is the word being read and clean tells whether it is untouched
RECURSIVE CleanWordsFrom(_, _, _, _, _)
CleanWordsFrom(text, cov, i, word, clean) ==
  LET done == IF word # <<>> /\ clean THEN <<word>> ELSE <<>>
  IN  IF i > Len(text) THEN done
      ELSE IF IsSpace(text[i]) THEN done \o CleanWordsFrom(text, cov, i + 1, <<>>, TRUE)
      ELSE CleanWordsFrom(text, cov, i + 1, Append(word, text[i]), clean /\ i \notin cov)

CleanWords(text, fillers) == CleanWordsFrom(text, Covered(text, fillers), 1, <<>>, TRUE)

\* a is b with some of its elements left out
RECURSIVE IsSubsequence(_, _)
IsSubsequence(a, b) ==
  IF a = <<>> THEN TRUE
  ELSE IF b = <<>> THEN FALSE
  ELSE IF Head(a) = Head(b) THEN IsSubsequence(Tail(a), Tail(b))
  ELSE IsSubsequence(a, Tail(b))

\* The characters of text, spaces aside, at the positions outside cov
Uncovered(text, cov) ==
  LET keep == {p \in 1..Len(text) : p \notin cov /\ ~IsSpace(text[p])}
      RECURSIVE From(_)
      From(p) == IF p > Len(text) THEN <<>>
                 ELSE (IF p \in keep THEN <<text[p]>> ELSE <<>>) \o From(p + 1)
  IN  From(1)

ContainsProperly(word, filler) ==
  /\ Len(filler) > 0 /\ Len(filler) < Len(word)
  /\ \E i \in 1..(Len(word) - Len(filler) + 1) :
       \A k \in 1..Len(filler) : LowerChar(word[i + k - 1]) = LowerChar(filler[k])

\* C16: _strip_fillers removes a filler only where it occurs between word
\* boundaries: the characters outside every such occurrence stay, in
\* order, and nothing is added; every word of the input that no such
\* occurrence touches (a word that merely contains a filler, as "unlike"
\* contains "like", among them) is a word of the output, in the input's
\* order.
C16_OnlyDelimitedFillersRemoved ==
  Done("_strip_fillers")
  => /\ IsSubsequence(CleanWords(call.text, call.filler_words), split(ret.val))
     /\ IsSubsequence(Uncovered(call.text, Covered(call.text, call.filler_words)),
                       NonSpace(ret.val))
     /\ IsSubsequence(NonSpace(ret.val), NonSpace(call.text))

\* a word that contains the filler has been kept and the filler standing
\* alone next to it removed
C16_WordContainingFillerKept ==
  /\ Done("_strip_fillers")
  /\ call.filler_words = << <<"a">> >>
  /\ split(call.text) = << <<"a", "m">>, <<"a">>, <<"m">> >>
  /\ ContainsProperly(split(call.text)[1], call.filler_words[1])
  /\ split(ret.val) = << <<"a", "m">>, <<"m">> >>

IsMultiWord(filler) == \E k \in 1..Len(filler) : filler[k] = " "

\* C17: _strip_fillers applies the fillers of the list in an order in which
\* every multi-word filler (one with a space) comes before every
\* single-word filler, and within the multi-word fillers and within the
\* single-word fillers a longer one comes before a shorter one; so also a
\* single-word filler longer than a multi-word filler comes after it.
C17_MultiWordFillersFirst ==
  Done("_strip_fillers")
  => LET applied == locals.sorted_fillers
     IN  /\ Len(applied) = Len(call.filler_words)
         /\ \A k \in 1..Len(call.filler_words) :
              \E q \in 1..Len(applied) : applied[q] = call.filler_words[k]
         /\ \A i \in 1..Len(applied), j \in 1..Len(applied) :
              i < j => /\ IsMultiWord(applied[j]) => IsMultiWord(applied[i])
                       /\ (IsMultiWord(applied[i]) = IsMultiWord(applied[j]))
                            => Len(applied[i]) >= Len(applied[j])

\* C18: the string _strip_fillers returns holds no occurrence, between word
\* boundaries, of a filler of the list, so that stripping it again with
\* the same list changes nothing, also when a removal brings the words
\* around it together; and it has no space at either end and no two spaces
\* in a row.
C18_NoFillerLeft ==
  Done("_strip_fillers")
  => /\ Covered(ret.val, call.filler_words) = {}
     /\ _strip_fillers(ret.val, call.filler_words) = ret.val
     /\ ret.val # <<>> => (~IsSpace(ret.val[1]) /\ ~IsSpace(ret.val[Len(ret.val)]))
     /\ \A i \in 1..(Len(ret.val) - 1) : ~(IsSpace(ret.val[i]) /\ IsSpace(ret.val[i + 1]))

(***************************************************************************)
(* The three functions that use an embedding provider, called in one       *)
(* process on short texts: semascore and asd share _bert_cache.            *)
(***************************************************************************)
\* The texts of these calls: none, or one word
BriefTexts == {RenderPlain(ws) : ws \in {<<>>, << <<"a">> >>, << <<"u", "m">> >>}}

CallSaerBrief == SaerCalled(BriefTexts, {Rat(1, 2)}, Devices)
CallSemascoreBrief == SemascoreCalled(BriefTexts, Devices)
CallAsdBrief == AsdCalled(BriefTexts, TokenArraysUpTo(MaxTokens - 1))

NextEmb == CallSaerBrief \/ CallSemascoreBrief \/ CallAsdBrief \/ Return

SpecEmb == InitAsd /\ [][NextEmb]_vars

(***************************************************************************)
(* Properties of the calls of the embedding provider                       *)
(***************************************************************************)
EmbFunctions == {"calculate_semascore", "calculate_saer", "calculate_asd"}
ImportSteps == {"import sentence_transformers", "import transformers", "import torch"}
LoadSteps == {"from_pretrained", "SentenceTransformer"}
EmbedSteps == {"embed", "embed_tokens", "encode"}
Count(steps, names) == Cardinality({k \in 1..Len(steps) : steps[k] \in names})

\* The provider failed during the call
ProviderFailed == Len(embedded) = 1
ExceptionOf(failure) ==
  CASE failure = "not_installed" -> "MissingDependencyError"
    [] failure = "load_fails" -> "ModelLoadError"
    [] OTHER -> "ProviderError"
FailingSteps(failure) ==
  CASE failure = "not_installed" -> ImportSteps
    [] failure = "load_fails" -> LoadSteps
    [] OTHER -> EmbedSteps

\* C15: when the embedding provider fails (it is not installed, the model
\* cannot be loaded, or an embedding call raises) during a call of
\* calculate_semascore, calculate_saer or calculate_asd, which is then
\* past the edge cases, the call ends with the error and without a value;
\* the failing step is the last step of the call and was made once (no
\* second attempt), and no model is cached by a failed loading.  So a call
\* that returns a value past the edge cases got its embeddings.
C15_ProviderFailurePropagates ==
  (pc = "done" /\ call.fn \in EmbFunctions)
  => /\ ProviderFailed
        => /\ NonEdge
           /\ ret.status = "raise"
           /\ ret.val = <<>>
           /\ ret.exc = ExceptionOf(embedded[1])
           /\ trace # <<>>
           /\ trace[Len(trace)] \in FailingSteps(embedded[1])
           /\ Count(trace, FailingSteps(embedded[1])) = 1
           /\ Count(trace, LoadSteps) <= 1
           /\ embedded[1] \in {"not_installed", "load_fails"}
                => call.device \notin (IF call.fn = "calculate_saer" THEN _labse_cache
                                       ELSE _bert_cache)
     /\ (ret.status = "ok" /\ NonEdge)
        => /\ ~ProviderFailed
           /\ Count(trace, EmbedSteps) >= 1

\* an embedding call has failed under a model loaded in this very call of
\* calculate_asd, in a process where calculate_saer has loaded its own
C15_EmbeddingFailsAfterLoading ==
  /\ Done("calculate_asd")
  /\ ProviderFailed /\ embedded[1] = "embed_fails"
  /\ ret.status = "raise"
  /\ trace = <<"import transformers", "import torch", "from_pretrained", "embed_tokens">>
  /\ _labse_cache # {}

(***************************************************************************)
(* _align_words called directly.                                           *)
(***************************************************************************)
AlignVocab == {<<"a">>, <<"m">>, <<"a", "m">>, <<"u", "m">>}
AlignWordLists == UNION {[1..k -> AlignVocab] : k \in 0..MaxAlignWords}

CallAlignWords ==
  /\ pc = "idle"
  /\ \E ref_words \in AlignWordLists, hyp_words \in AlignWordLists :
       /\ call' = [fn |-> "_align_words", ref_words |-> ref_words, hyp_words |-> hyp_words]
       /\ ret' = [status |-> "ok", exc |-> "", val |-> _align_words(ref_words, hyp_words)]
  /\ trace' = <<>>
  /\ embedded' = <<>>
  /\ locals' = NoLocals
  /\ pc' = "done"
  /\ UNCHANGED <<jiwer_installed, _labse_cache, _bert_cache>>

NextAlign == CallAlignWords \/ Return

SpecAlign == InitAsd /\ [][NextAlign]_vars

(***************************************************************************)
(* Properties of _align_words                                              *)
(***************************************************************************)
\* C20: with both word lists non-empty, _align_words returns one pair per
\* hypothesis word, in order; the pair of a hypothesis word holds the
\* reference word at the smallest index among those of least
\* character-level Levenshtein distance to it, whatever the other pairs
\* hold (a reference word may stand in several pairs).
C20_NearestReferenceWordFirstWins ==
  (Done("_align_words") /\ call.ref_words # <<>> /\ call.hyp_words # <<>>)
  => /\ Len(ret.val) = Len(call.hyp_words)
     /\ \A k \in 1..Len(call.hyp_words) :
          /\ ret.val[k][2] = call.hyp_words[k]
          /\ \E idx \in 1..Len(call.ref_words) :
               /\ ret.val[k][1] = call.ref_words[idx]
               /\ \A q \in 1..Len(call.ref_words) :
                    LevenshteinDistance(call.ref_words[idx], call.hyp_words[k])
                      <= LevenshteinDistance(call.ref_words[q], call.hyp_words[k])
               /\ \A q \in 1..(idx - 1) :
                    LevenshteinDistance(call.ref_words[idx], call.hyp_words[k])
                      < LevenshteinDistance(call.ref_words[q], call.hyp_words[k])

\* two reference words are equally near to both hypothesis words, and the
\* first of them stands in both pairs
C20_TieGoesToFirstTwice ==
  /\ Done("_align_words")
  /\ Len(call.ref_words) = 2 /\ Len(call.hyp_words) = 2
  /\ call.ref_words[1] # call.ref_words[2]
  /\ \A k \in 1..2 :
       /\ LevenshteinDistance(call.ref_words[1], call.hyp_words[k])
            = LevenshteinDistance(call.ref_words[2], call.hyp_words[k])
       /\ ret.val[k] = <<call.ref_words[1], call.hyp_words[k]>>

\* C21: the list _align_words returns holds no pair with both sides empty.
\* With an empty hypothesis list it is one pair (ref_word, "") per reference
\* word, in reference order; with an empty reference list and a non-empty
\* hypothesis list, one pair ("", hyp_word) per hypothesis word, in
\* hypothesis order; with both non-empty, exactly len(hyp_words) pairs whose
\* hypothesis sides are the hypothesis words in order and whose reference
\* sides are members of ref_words, no deletion pair standing for a
\* reference word that no hypothesis word selected; with both empty, the
\* empty list.
C21_AlignedPairsShape ==
  Done("_align_words")
  => LET ref_words == call.ref_words
         hyp_words == call.hyp_words
         pairs == ret.val
     IN  /\ \A k \in 1..Len(pairs) : ~(pairs[k][1] = <<>> /\ pairs[k][2] = <<>>)
         /\ hyp_words = <<>>
              => /\ Len(pairs) = Len(ref_words)
                 /\ \A k \in 1..Len(pairs) : pairs[k] = <<ref_words[k], <<>> >>
         /\ (ref_words = <<>> /\ hyp_words # <<>>)
              => /\ Len(pairs) = Len(hyp_words)
                 /\ \A k \in 1..Len(pairs) : pairs[k] = << <<>>, hyp_words[k]>>
         /\ (ref_words # <<>> /\ hyp_words # <<>>)
              => /\ Len(pairs) = Len(hyp_words)
                 /\ \A k \in 1..Len(pairs) :
                      /\ pairs[k][2] = hyp_words[k]
                      /\ \E q \in 1..Len(ref_words) : pairs[k][1] = ref_words[q]
         /\ (ref_words = <<>> /\ hyp_words = <<>>) => pairs = <<>>

\* a reference word that no hypothesis word selected stands in no pair of
\* the list returned
C21_UnselectedReferenceWord ==
  /\ Done("_align_words")
  /\ Len(call.ref_words) = 2 /\ Len(call.hyp_words) = 2
  /\ Len(ret.val) = 2
  /\ \E q \in 1..2 : \A k \in 1..2 : ret.val[k][1] # call.ref_words[q]

(***************************************************************************)
(* calculate_semascore on words that share letters.                        *)
(***************************************************************************)
SegWordSeqs == {<< <<"a", "m">> >>, << <<"u", "m">> >>, << <<"a">>, <<"u", "m">> >>}
SegTexts == {RenderPlain(ws) : ws \in SegWordSeqs}

CallSemascoreSeg == SemascoreCalled(SegTexts, Devices)

NextSeg == CallSemascoreSeg \/ Return

SpecSeg == Init /\ [][NextSeg]_vars

(***************************************************************************)
(* Properties of the per-segment score                                     *)
(***************************************************************************)
\* The word-level error rate of a pair of single-word segments: 0 when the
\* words are equal, 1 (one substitution in one word) otherwise.
WordLevelRate(ref_seg, hyp_seg) == IF ref_seg = hyp_seg THEN Zero ELSE One

\* The character-level ratio: edit distance over the longer length.
CharLevelRatio(ref_seg, hyp_seg) ==
  IF ref_seg = hyp_seg THEN Zero
  ELSE Rat(LevenshteinDistance(ref_seg, hyp_seg),
           IF Len(ref_seg) < Len(hyp_seg) THEN Len(hyp_seg) ELSE Len(ref_seg))

\* The cosine similarity of the embeddings the provider returned for the
\* two segments of the k-th aligned pair.
SegmentCosine(k) ==
  _cosine_similarity(embedded[1][locals.aligned_pairs[k][1]],
                     embedded[1][locals.aligned_pairs[k][2]], embedded[2][1])

Scored == Done("calculate_semascore") /\ ret.status = "ok" /\ locals.path = "aggregate"

\* C22 as stated: for every aligned pair with both sides non-empty the
\* per-segment score is cosine_similarity(embed(ref_seg), embed(hyp_seg)) *
\* (1 - e), e being the word-level error rate of the pair (0 when the
\* segments are equal, 1 for two different single-word segments, the score
\* then being 0), on every path of _segment_mer.
C22_ScoreUsesWordLevelRate ==
  Scored
  => \A k \in 1..Len(locals.aligned_pairs) :
       LET ref_seg == locals.aligned_pairs[k][1]
           hyp_seg == locals.aligned_pairs[k][2]
       IN  (ref_seg # <<>> /\ hyp_seg # <<>>)
           => /\ Len(split(ref_seg)) = 1 /\ Len(split(hyp_seg)) = 1
              /\ locals.scores[k]
                   = RMul(SegmentCosine(k), RSub(One, WordLevelRate(ref_seg, hyp_seg)))

\* C22, amended: for every aligned pair with both sides non-empty the
\* per-segment score is cosine_similarity(embed(ref_seg), embed(hyp_seg)) *
\* (1 - e); when jiwer can be imported e is the word-level error rate of the
\* pair (0 when the segments are equal, 1 for two different single-word
\* segments, the score then being 0); when jiwer cannot be imported e is 0
\* for equal segments and otherwise the character-level edit distance of
\* the two segments divided by the length of the longer one.
C22_ScoreUsesWordLevelRateWithJiwer ==
  Scored
  => \A k \in 1..Len(locals.aligned_pairs) :
       LET ref_seg == locals.aligned_pairs[k][1]
           hyp_seg == locals.aligned_pairs[k][2]
           e == IF jiwer_installed THEN WordLevelRate(ref_seg, hyp_seg)
                ELSE CharLevelRatio(ref_seg, hyp_seg)
       IN  (ref_seg # <<>> /\ hyp_seg # <<>>)
           => /\ Len(split(ref_seg)) = 1 /\ Len(split(hyp_seg)) = 1
              /\ locals.scores[k] = RMul(SegmentCosine(k), RSub(One, e))

\* with jiwer installed, two different words that share a letter and whose
\* embeddings have cosine similarity 1 have scored 0
C22_DifferentWordsScoreZero ==
  /\ Scored /\ jiwer_installed
  /\ \E k \in 1..Len(locals.aligned_pairs) :
       /\ locals.aligned_pairs[k][1] # locals.aligned_pairs[k][2]
       /\ CharLevelRatio(locals.aligned_pairs[k][1], locals.aligned_pairs[k][2]) # One
       /\ SegmentCosine(k) = One
       /\ locals.scores[k] = Zero

(***************************************************************************)
(* The scoring loop of calculate_semascore on any list of aligned pairs.   *)
(***************************************************************************)
Segments == {<<>>, <<"a">>, <<"u", "m">>}
PairLists == UNION {[1..k -> Segments \X Segments] : k \in 0..MaxPairs}
\* The loop is entered with a reference norm of 1e-12 or more (line 232).
RefEmbNorms == {n \in {Norm(v) : v \in Vectors} : ~BelowEps(n)}

CallScoringLoop ==
  /\ pc = "idle"
  /\ \E aligned_pairs \in PairLists, E \in [Segments \ {<<>>} -> Vectors],
        ref_emb_norm \in RefEmbNorms, rounding \in Roundings :
       \E l \in semascore_loop(aligned_pairs, 1, E, ref_emb_norm, rounding,
                                jiwer_installed) :
         /\ call' = [fn |-> "scoring_loop", aligned_pairs |-> aligned_pairs,
                     ref_emb_norm |-> ref_emb_norm]
         /\ ret' = [status |-> "ok", exc |-> "", val |-> <<>>]
         /\ trace' = l.steps
         /\ embedded' = <<E, <<rounding>> >>
         /\ locals' = [path |-> "loop", scores |-> l.scores, weights |-> l.weights]
  /\ pc' = "done"
  /\ UNCHANGED <<jiwer_installed, _labse_cache, _bert_cache>>

NextLoop == CallScoringLoop \/ Return

SpecLoop == Init /\ [][NextLoop]_vars

(***************************************************************************)
(* Properties of the scoring loop                                          *)
(***************************************************************************)
\* The pairs of the list whose reference side is not empty, in order
WithReference(aligned_pairs) == SelectSeq(aligned_pairs, LAMBDA p : p[1] # <<>>)

\* C23: after the scoring loop, on any list of aligned pairs, the scores
\* and the weights have one entry for each pair whose reference side is not
\* empty, in order (insertion pairs and pairs with both sides empty add
\* nothing to either list); the entry of a deletion pair is the score 0
\* with the weight ||embed(ref_seg)|| / ||embed(full reference)||; and
\* every weight is >= 0.
C23_LoopContributions ==
  Done("scoring_loop")
  => LET kept == WithReference(call.aligned_pairs)
     IN  /\ Len(locals.scores) = Len(kept)
         /\ Len(locals.weights) = Len(kept)
         /\ \A j \in 1..Len(kept) :
              /\ RLe(Zero, locals.weights[j])
              /\ locals.weights[j] = RDiv(Norm(embedded[1][kept[j][1]]), call.ref_emb_norm)
              /\ kept[j][2] = <<>> => locals.scores[j] = Zero

\* a deletion pair and an insertion pair have been scored: one score of 0
\* with one positive weight
C23_DeletionAndInsertion ==
  /\ Done("scoring_loop")
  /\ \E j, k \in 1..Len(call.aligned_pairs) :
       /\ call.aligned_pairs[j][1] # <<>> /\ call.aligned_pairs[j][2] = <<>>
       /\ call.aligned_pairs[k][1] = <<>> /\ call.aligned_pairs[k][2] # <<>>
  /\ locals.scores = <<Zero>>
  /\ Len(locals.weights) = 1 /\ RLt(Zero, locals.weights[1])

(***************************************************************************)
(* _dp_alignment run one iteration of its backtracking loop at a time, on  *)
(* matrices of every shape, those without rows or without columns          *)
(* included.                                                               *)
(***************************************************************************)
AnyCostShapes ==
  {s \in (0..MaxCells) \X (0..MaxCells) : s[1] * s[2] <= MaxCells /\ s[1] + s[2] <= MaxCells + 1}
AnyCostMatrices ==
  UNION {{[shape |-> s, at |-> f] : f \in [(0..(s[1] - 1)) \X (0..(s[2] - 1)) -> CostValues]} :
           s \in AnyCostShapes}

\* The matrices whose costs are 0 or 2 only
CoarseCostMatrices ==
  {cost \in AnyCostMatrices : \A c \in DOMAIN cost.at : cost.at[c] \in {Zero, Rat(2, 1)}}

\* lines 196-218: the table is filled and the loop is about to start
DpAlignmentEntered(matrices) ==
  /\ pc = "idle"
  /\ \E cost \in matrices :
       /\ call' = [fn |-> "_dp_alignment", cost |-> cost]
       /\ locals' = [path |-> "backtrack", dp |-> dp_table(cost),
                     i |-> cost.shape[1], j |-> cost.shape[2],
                     alignment_path |-> <<>>, iterations |-> 0]
  /\ pc' = "backtrack"
  /\ UNCHANGED <<jiwer_installed, _labse_cache, _bert_cache, ret, trace, embedded>>

\* lines 220-238: one iteration, the condition of the while holding.  The
\* count of iterations is kept for the properties; no run of the loop is
\* followed beyond one iteration more than the rows and columns together.
BacktrackStep ==
  /\ pc = "backtrack"
  /\ locals.i > 0 \/ locals.j > 0
  /\ locals.iterations <= call.cost.shape[1] + call.cost.shape[2]
  /\ LET n == dp_backtrack_step(locals.dp, call.cost, locals.i, locals.j,
                                locals.alignment_path)
     IN  locals' = [locals EXCEPT !.i = n.i, !.j = n.j, !.alignment_path = n.path,
                                  !.iterations = @ + 1]
  /\ UNCHANGED <<jiwer_installed, _labse_cache, _bert_cache, pc, call, ret, trace,
                 embedded>>

\* lines 240-241: the condition of the while fails; the path is reversed
\* and returned
ExitDpAlignment ==
  /\ pc = "backtrack"
  /\ ~(locals.i > 0 \/ locals.j > 0)
  /\ ret' = [status |-> "ok", exc |-> "", val |-> Reverse(locals.alignment_path)]
  /\ pc' = "done"
  /\ UNCHANGED <<jiwer_installed, _labse_cache, _bert_cache, call, trace, embedded,
                 locals>>

EnterDpAlignment == DpAlignmentEntered(AnyCostMatrices)

NextBacktrack == EnterDpAlignment \/ BacktrackStep \/ ExitDpAlignment \/ Return

SpecBacktrack == InitAsd /\ [][NextBacktrack]_vars

EnterDpAlignmentCoarse == DpAlignmentEntered(CoarseCostMatrices)

NextBacktrackCoarse ==
  EnterDpAlignmentCoarse \/ BacktrackStep \/ ExitDpAlignment \/ Return

\* The loop is the body of one thread: while its condition holds the next
\* iteration is taken, and when it fails the function returns.
SpecBacktrackFair ==
  /\ InitAsd /\ [][NextBacktrackCoarse]_vars
  /\ WF_vars(BacktrackStep) /\ WF_vars(ExitDpAlignment)

(***************************************************************************)
(* Properties of the backtracking loop                                     *)
(***************************************************************************)
\* The loop taken one iteration at a time returns what dp_backtrack does.
StepsAgreeWithDpAlignment ==
  (pc = "done" /\ call.fn = "_dp_alignment") => ret.val = _dp_alignment(call.cost)

\* C24: for every R x H cost matrix the path _dp_alignment returns holds
\* pairs (ref_index, hyp_index) with 0 <= ref_index < R and 0 <= hyp_index
\* < H, and consecutive pairs increase strictly in both coordinates; so no
\* reference token and no hypothesis token stands in two pairs and there
\* are at most min(R, H) pairs.
C24_PathStrictlyIncreasing ==
  (pc = "done" /\ call.fn = "_dp_alignment")
  => LET path == ret.val
         R == call.cost.shape[1]
         H == call.cost.shape[2]
     IN  /\ \A k \in 1..Len(path) :
              /\ 0 <= path[k][1] /\ path[k][1] < R
              /\ 0 <= path[k][2] /\ path[k][2] < H
         /\ \A k \in 1..(Len(path) - 1) :
              /\ path[k][1] < path[k + 1][1]
              /\ path[k][2] < path[k + 1][2]
         /\ \A k, q \in 1..Len(path) :
              k # q => (path[k][1] # path[q][1] /\ path[k][2] # path[q][2])
         /\ Len(path) <= R /\ Len(path) <= H

\* a path of two pairs has been returned that passes over a reference
\* token between them
C24_PathWithGap ==
  /\ pc = "done" /\ call.fn = "_dp_alignment"
  /\ Len(ret.val) = 2
  /\ ret.val[2][1] = ret.val[1][1] + 2
  /\ ret.val[2][2] = ret.val[1][2] + 1

\* C25: for every R x H cost matrix, R, H >= 0, the backtracking loop of
\* _dp_alignment terminates: each iteration decreases i + j by 1 or 2 and
\* makes neither i nor j negative, so the loop reaches (0, 0) after at most
\* R + H iterations and the function returns, with no external step.
C25_BacktrackTerminates ==
  /\ [][(pc = "backtrack" /\ pc' = "backtrack")
          => /\ (locals.i + locals.j) - (locals'.i + locals'.j) \in {1, 2}
             /\ locals'.i >= 0 /\ locals'.j >= 0]_vars
  /\ [](pc = "backtrack"
          => locals.iterations <= call.cost.shape[1] + call.cost.shape[2])
  /\ []((pc = "done" /\ call.fn = "_dp_alignment")
          => /\ locals.i = 0 /\ locals.j = 0
             /\ locals.iterations <= call.cost.shape[1] + call.cost.shape[2]
             /\ trace = <<>>)
  /\ (pc = "backtrack") ~> (pc = "done")

\* the loop has ended after one diagonal move and two skips on a 2 x 2
\* matrix
C25_ThreeIterations ==
  /\ pc = "done" /\ call.fn = "_dp_alignment"
  /\ call.cost.shape = <<2, 2>>
  /\ locals.iterations = 3
  /\ Len(ret.val) = 1

(***************************************************************************)
(* _dp_alignment on cost matrices, and calculate_asd on two different      *)
(* texts with every token embedding the provider may return.               *)
(***************************************************************************)
PairedTexts == {RenderPlain(ws) : ws \in {<< <<"a">> >>, << <<"u", "m">> >>}}

CallAsdPaired == AsdCalled(PairedTexts, TokenArraysUpTo(MaxTokens))

NextMatched == CallDpAlignment \/ CallAsdPaired \/ Return

SpecMatched == InitAsd /\ [][NextMatched]_vars

(***************************************************************************)
(* Properties of the matched pairs                                         *)
(***************************************************************************)
\* Every entry of the matrix lies in [0, 2].
CostsWithinTwo(cost) ==
  \A c \in DOMAIN cost.at : RLe(Zero, cost.at[c]) /\ RLe(cost.at[c], Rat(2, 1))

\* C26: for every cost matrix with R >= 1, H >= 1 and all entries in
\* [0, 2], the alignment _dp_alignment returns holds at least one matched
\* pair, also when every cost is 2; so calculate_asd never returns by its
\* `if not alignment` fallback, and every result past the edge cases (both
\* token sequences non-empty) has num_matched >= 1.
C26_AlignmentNeverEmpty ==
  /\ (Done("_dp_alignment") /\ call.cost.shape[1] >= 1 /\ call.cost.shape[2] >= 1
        /\ CostsWithinTwo(call.cost))
     => Len(ret.val) >= 1
  /\ Done("calculate_asd") => locals.path # "no_alignment"
  /\ (Done("calculate_asd") /\ NonEdge /\ ret.status = "ok"
        /\ Len(embedded[1]) > 0 /\ Len(embedded[2]) > 0)
     => /\ CostsWithinTwo(_cosine_distance_matrix(embedded[1], embedded[2]))
        /\ ret.val.num_matched >= 1

\* calculate_asd has matched a pair although every token of the reference
\* is opposite to every token of the hypothesis (every cost is 2)
C26_MatchedAtCostTwo ==
  /\ Done("calculate_asd") /\ NonEdge /\ ret.status = "ok"
  /\ Len(embedded[1]) = 2 /\ Len(embedded[2]) = 2
  /\ \A c \in DOMAIN locals.cost_matrix.at : locals.cost_matrix.at[c] = Rat(2, 1)
  /\ ret.val.num_matched >= 1

(***************************************************************************)
(* Properties of calculate_semascore past its edge cases                   *)
(***************************************************************************)
\* C27: whenever calculate_semascore gets past its edge-case checks, both
\* word lists passed to _align_words are non-empty, so neither the return
\* on `not aligned_pairs` nor the one on `not scores` is taken; when the
\* loop has run, every aligned pair has both sides non-empty, each pair has
\* taken the branch that embeds both segments (three embeddings a pair,
\* after the one of the reference), and the scores and the weights have
\* exactly one entry per hypothesis word.
C27_OnlyFullPairsScored ==
  (Done("calculate_semascore") /\ NonEdge)
  => /\ RefWords # <<>> /\ HypWords # <<>>
     /\ locals.path \notin {"no_pairs", "no_scores"}
     /\ locals.path = "aggregate"
          => /\ Len(locals.aligned_pairs) = Len(HypWords)
             /\ \A k \in 1..Len(locals.aligned_pairs) :
                  /\ locals.aligned_pairs[k][1] # <<>>
                  /\ locals.aligned_pairs[k][2] # <<>>
             /\ Count(trace, {"embed"}) = 1 + 3 * Len(HypWords)
             /\ Len(locals.scores) = Len(HypWords)
             /\ Len(locals.weights) = Len(HypWords)

\* a reference of two words has been scored against a hypothesis of one:
\* one score and one weight
C27_FewerPairsThanReferenceWords ==
  /\ Done("calculate_semascore") /\ NonEdge /\ locals.path = "aggregate"
  /\ Len(RefWords) = 2 /\ Len(HypWords) = 1
  /\ Len(locals.scores) = 1 /\ Len(locals.weights) = 1

(***************************************************************************)
(* _get_bert called from two threads of one process, a statement at a      *)
(* time.  Each thread makes up to MaxCalls calls, of semascore._get_bert   *)
(* or of asd._get_bert, which test and fill the same dict (asd.py:35).     *)
(* The fields of locals are the threads' positions and local variables,    *)
(* and, kept for the properties, the number of completed loads of each     *)
(* device and whether two calls for a device overlapped between the test   *)
(* of line 59 and the store of line 75.                                    *)
(***************************************************************************)
Threads == {"t1", "t2"}
BertModules == {"semascore", "asd"}

\* cache is the set of the keys of _bert_cache
\* a store that leaves the dict as it is
bert_cache_store_skipped(cache, device) == cache

\* line 75: _bert_cache[device] = (tokenizer, model)
bert_cache_store(cache, device) == cache \cup {device}

\* line 59: device not in _bert_cache
bert_cache_miss(cache, device) == device \notin cache

InitThreads ==
  /\ jiwer_installed = TRUE
  /\ _labse_cache = {}
  /\ _bert_cache = {}
  /\ pc = "threads"
  /\ call = NoCall
  /\ ret = NoRet
  /\ trace = <<>>
  /\ embedded = <<>>
  /\ locals = [path |-> "threads",
               at |-> [t \in Threads |-> "ready"],
               module_ |-> [t \in Threads |-> "semascore"],
               device |-> [t \in Threads |-> "cpu"],
               outcome |-> [t \in Threads |-> "none"],
               calls |-> [t \in Threads |-> 0],
               loads |-> [d \in Devices |-> 0],
               overlapped |-> [d \in Devices |-> FALSE]]

\* Another thread is between its test of line 59 and its store of line 75
\* for the device.
InWindow(t, device) ==
  \E u \in Threads \ {t} : locals.at[u] \in {"load", "store"} /\ locals.device[u] = device

\* thread t calls _get_bert(device) of one of the two modules
BeginGetBert(t) ==
  /\ pc = "threads"
  /\ locals.at[t] = "ready"
  /\ locals.calls[t] < MaxCalls
  /\ \E m \in BertModules, dev \in Devices :
       locals' = [locals EXCEPT !.at[t] = "test", !.module_[t] = m, !.device[t] = dev,
                                !.outcome[t] = "none", !.calls[t] = @ + 1]
  /\ UNCHANGED <<jiwer_installed, _labse_cache, _bert_cache, pc, call, ret, trace,
                 embedded>>

\* line 59, and line 76 when the device is in the dict
TestCache(t) ==
  /\ pc = "threads"
  /\ locals.at[t] = "test"
  /\ IF bert_cache_miss(_bert_cache, locals.device[t])
     THEN locals' = [locals EXCEPT !.at[t] = "load",
                                   !.overlapped[locals.device[t]] =
                                      @ \/ InWindow(t, locals.device[t])]
     ELSE locals' = [locals EXCEPT !.at[t] = "ready", !.outcome[t] = "cached"]
  /\ UNCHANGED <<jiwer_installed, _labse_cache, _bert_cache, pc, call, ret, trace,
                 embedded>>

\* lines 60-74: the imports and the loading, which the provider lets
\* succeed or fail
LoadBert(t) ==
  /\ pc = "threads"
  /\ locals.at[t] = "load"
  /\ \E behaviour \in BertBehaviours \ {"embed_fails"} :
       locals' = IF behaviour = "not_installed"
                 THEN [locals EXCEPT !.at[t] = "ready",
                                     !.outcome[t] = "MissingDependencyError"]
                 ELSE IF behaviour = "load_fails"
                 THEN [locals EXCEPT !.at[t] = "ready", !.outcome[t] = "ModelLoadError"]
                 ELSE [locals EXCEPT !.at[t] = "store",
                                     !.loads[locals.device[t]] = @ + 1]
  /\ UNCHANGED <<jiwer_installed, _labse_cache, _bert_cache, pc, call, ret, trace,
                 embedded>>

\* lines 75-76
StoreBert(t) ==
  /\ pc = "threads"
  /\ locals.at[t] = "store"
  /\ _bert_cache' = bert_cache_store(_bert_cache, locals.device[t])
  /\ locals' = [locals EXCEPT !.at[t] = "ready", !.outcome[t] = "loaded"]
  /\ UNCHANGED <<jiwer_installed, _labse_cache, pc, call, ret, trace, embedded>>

NextThreads ==
  \E t \in Threads : BeginGetBert(t) \/ TestCache(t) \/ LoadBert(t) \/ StoreBert(t)

SpecThreads == InitThreads /\ [][NextThreads]_vars

(***************************************************************************)
(* Properties of the shared cache                                          *)
(***************************************************************************)
\* A call that finds its device in the dict returns the cached pair: no
\* load, and the dict as it was.
CachedCallsDoNotLoad ==
  [][\A t \in Threads :
       (pc = "threads" /\ locals.at[t] = "test" /\ locals'.at[t] # "test"
          /\ locals.device[t] \in _bert_cache)
       => /\ locals'.outcome[t] = "cached"
          /\ locals'.loads = locals.loads
          /\ _bert_cache' = _bert_cache]_vars

\* A load that fails raises ModelLoadError (or MissingDependencyError when
\* a package is missing) and stores nothing.
FailedLoadStoresNothing ==
  [][\A t \in Threads :
       (pc = "threads" /\ locals.at[t] = "load" /\ locals'.at[t] = "ready")
       => /\ locals'.outcome[t] \in {"ModelLoadError", "MissingDependencyError"}
          /\ locals'.loads = locals.loads
          /\ _bert_cache' = _bert_cache]_vars

\* C28 as stated: for each device the model is loaded at most once in the
\* process, under any interleaving of concurrent callers of the two
\* _get_bert.
C28_LoadedAtMostOnce ==
  pc = "threads" => \A d \in Devices : locals.loads[d] <= 1

\* C28, amended: the dict is shared by the two modules; a call of either
\* _get_bert that finds the device in the dict returns the cached pair
\* without loading; for each device the model is loaded at most once as
\* long as no two calls for the device overlap between the test and the
\* store; a load that fails raises ModelLoadError and stores nothing.
C28_LoadedOnceUnlessCallsOverlap ==
  /\ [](pc = "threads"
          => \A d \in Devices : ~locals.overlapped[d] => locals.loads[d] <= 1)
  /\ [](pc = "threads" => \A d \in Devices : d \in _bert_cache => locals.loads[d] >= 1)
  /\ CachedCallsDoNotLoad
  /\ FailedLoadStoresNothing

\* one thread has loaded the model through one module and the other thread
\* has got the cached pair through the other module
C28_CachedAcrossModules ==
  /\ pc = "threads"
  /\ locals.outcome["t1"] = "loaded" /\ locals.outcome["t2"] = "cached"
  /\ locals.device["t1"] = locals.device["t2"]
  /\ locals.module_["t1"] # locals.module_["t2"]
  /\ locals.loads[locals.device["t1"]] = 1

(***************************************************************************)
(* stt_metrics.py                                                          *)
(*                                                                         *)
(* Lists are indexed from 1 here: dp[i + 1][j + 1] is Python's dp[i][j].   *)
(***************************************************************************)
\* The double loop with the insertion neighbour left out of the minimum
RECURSIVE compute_wer_fill_no_insertion(_, _, _, _, _)
compute_wer_fill_no_insertion(dp, ref_words, hyp_words, i, j) ==
  IF i > Len(ref_words) THEN dp
  ELSE IF j > Len(hyp_words)
  THEN compute_wer_fill_no_insertion(dp, ref_words, hyp_words, i + 1, 1)
  ELSE LET v == IF ref_words[i] = hyp_words[j] THEN dp[i][j]
                ELSE 1 + (IF dp[i][j + 1] <= dp[i][j] THEN dp[i][j + 1] ELSE dp[i][j])
       IN  compute_wer_fill_no_insertion([dp EXCEPT ![i + 1][j + 1] = v], ref_words,
                                         hyp_words, i, j + 1)

\* The double loop of compute_wer (lines 25-34) from the cell (i, j) on: the
\* table after it.
RECURSIVE compute_wer_fill(_, _, _, _, _)
compute_wer_fill(dp, ref_words, hyp_words, i, j) ==
  IF i > Len(ref_words) THEN dp
  ELSE IF j > Len(hyp_words) THEN compute_wer_fill(dp, ref_words, hyp_words, i + 1, 1)
  ELSE LET v == IF ref_words[i] = hyp_words[j] THEN dp[i][j]
                ELSE 1 + Min3(dp[i][j + 1], dp[i + 1][j], dp[i][j])
       IN  compute_wer_fill([dp EXCEPT ![i + 1][j + 1] = v], ref_words, hyp_words, i, j + 1)

\* lines 16-34: the table dp when the loops have ended
compute_wer_table(ref_words, hyp_words) ==
  LET n == Len(ref_words)
      m == Len(hyp_words)
      borders == [i \in 1..(n + 1) |->
                    [j \in 1..(m + 1) |-> IF j = 1 THEN i - 1 ELSE IF i = 1 THEN j - 1 ELSE 0]]
  IN  compute_wer_fill(borders, ref_words, hyp_words, 1, 1)

\* compute_wer(reference, hypothesis): the value returned, with dp[n][m]
\* when the table was filled
compute_wer(reference, hypothesis) ==
  LET ref_words == split(lower(reference))
      hyp_words == split(lower(hypothesis))
      n == Len(ref_words)
      m == Len(hyp_words)
      d == compute_wer_table(ref_words, hyp_words)[n + 1][m + 1]
  IN  IF ref_words = <<>>
      THEN [val |-> IF hyp_words = <<>> THEN Zero ELSE One, locals |-> [path |-> "no_reference"]]
      ELSE [val |-> Rat(d, n), locals |-> [path |-> "table", distance |-> d]]

\* The inner loop of compute_cer (lines 55-59) from column j on
RECURSIVE compute_cer_row(_, _, _, _, _)
compute_cer_row(curr, prev, x, hyp_chars, j) ==
  IF j > Len(hyp_chars) THEN curr
  ELSE LET v == IF x = hyp_chars[j] THEN prev[j]
                ELSE 1 + Min3(prev[j + 1], curr[j], prev[j])
       IN  compute_cer_row([curr EXCEPT ![j + 1] = v], prev, x, hyp_chars, j + 1)

\* The outer loop of compute_cer (lines 53-60) from row i on; after each row
\* prev is the row filled and curr a new list of zeros.
RECURSIVE compute_cer_rows(_, _, _, _, _)
compute_cer_rows(prev, curr, ref_chars, hyp_chars, i) ==
  IF i > Len(ref_chars) THEN prev
  ELSE compute_cer_rows(
         compute_cer_row([curr EXCEPT ![1] = i], prev, ref_chars[i], hyp_chars, 1),
         [j \in 1..(Len(hyp_chars) + 1) |-> 0], ref_chars, hyp_chars, i + 1)

\* compute_cer(reference, hypothesis): the value returned, with prev[m]
\* when the rows were filled
compute_cer(reference, hypothesis) ==
  LET ref_chars == lower(reference)
      hyp_chars == lower(hypothesis)
      n == Len(ref_chars)
      m == Len(hyp_chars)
      d == compute_cer_rows([j \in 1..(m + 1) |-> j - 1], [j \in 1..(m + 1) |-> 0],
                            ref_chars, hyp_chars, 1)[m + 1]
  IN  IF ref_chars = <<>>
      THEN [val |-> IF hyp_chars = <<>> THEN Zero ELSE One, locals |-> [path |-> "no_reference"]]
      ELSE [val |-> Rat(d, n), locals |-> [path |-> "table", distance |-> d]]

\* The strings given to compute_cer and to _char_edit_distance
CerStrings == UNION {[1..k -> {"a", "m", "M"}] : k \in 0..(MaxChars - 1)}
EditStrings == UNION {[1..k -> {"a", "m"}] : k \in 0..MaxChars}

\* A function of stt_metrics has returned o to a call c.
FinishStt(c, o) ==
  /\ call' = c
  /\ ret' = [status |-> "ok", exc |-> "", val |-> o.val]
  /\ locals' = o.locals
  /\ trace' = <<>>
  /\ embedded' = <<>>
  /\ pc' = "done"
  /\ UNCHANGED <<jiwer_installed, _labse_cache, _bert_cache>>

CallComputeWer ==
  /\ pc = "idle"
  /\ \E r \in Texts, h \in Texts :
       FinishStt([fn |-> "compute_wer", reference |-> r, hypothesis |-> h], compute_wer(r, h))

CallComputeCer ==
  /\ pc = "idle"
  /\ \E r \in CerStrings, h \in CerStrings :
       FinishStt([fn |-> "compute_cer", reference |-> r, hypothesis |-> h], compute_cer(r, h))

CallCharEditDistance ==
  /\ pc = "idle"
  /\ \E s1 \in EditStrings, s2 \in EditStrings :
       FinishStt([fn |-> "_char_edit_distance", s1 |-> s1, s2 |-> s2],
                 [val |-> _char_edit_distance(s1, s2), locals |-> NoLocals])

NextStt == CallComputeWer \/ CallComputeCer \/ CallCharEditDistance \/ Return

SpecStt == InitAsd /\ [][NextStt]_vars

(***************************************************************************)
(* Properties of the edit-distance computations                            *)
(***************************************************************************)
\* C29: for all word sequences the table of compute_wer, which copies
\* dp[i-1][j-1] when the two words match and otherwise takes 1 + the
\* minimum of the three neighbours, ends with dp[n][m] the unit-cost
\* Levenshtein distance of the full three-way recurrence; so do the two
\* rolling rows of compute_cer over characters, and those of
\* _char_edit_distance, which swaps its rows, and whose result is the same
\* with its two arguments exchanged.
C29_TablesGiveLevenshteinDistance ==
  /\ (Done("compute_wer") /\ locals.path = "table")
     => /\ locals.distance = LevenshteinDistance(split(lower(call.reference)),
                                                 split(lower(call.hypothesis)))
        /\ ret.val = Rat(locals.distance, Len(split(lower(call.reference))))
  /\ (Done("compute_cer") /\ locals.path = "table")
     => /\ locals.distance = LevenshteinDistance(lower(call.reference),
                                                 lower(call.hypothesis))
        /\ ret.val = Rat(locals.distance, Len(call.reference))
  /\ Done("_char_edit_distance")
     => /\ ret.val = LevenshteinDistance(call.s1, call.s2)
        /\ ret.val = _char_edit_distance(call.s2, call.s1)

\* compute_wer has copied the diagonal for a matching word where a
\* neighbour of the cell was smaller than the diagonal (as for the
\* reference "a a" and the hypothesis "a", at the cell of the second "a")
C29_CopyWhereNeighbourIsSmaller ==
  /\ Done("compute_wer") /\ locals.path = "table"
  /\ LET ref_words == split(lower(call.reference))
         hyp_words == split(lower(call.hypothesis))
         dp == compute_wer_table(ref_words, hyp_words)
     IN  \E i \in 1..Len(ref_words), j \in 1..Len(hyp_words) :
           /\ ref_words[i] = hyp_words[j]
           /\ dp[i + 1][j + 1] = dp[i][j]
           /\ dp[i][j + 1] < dp[i][j] \/ dp[i + 1][j] < dp[i][j]

(***************************************************************************)
(* pipeline.py: VoiceEvalPipeline._run_asr                                 *)
(*                                                                         *)
(* A field of ASRMetrics holds None or Some(number).  The transcription is *)
(* an external call: it returns a text, raises MissingDependencyError, or  *)
(* raises another exception.                                               *)
(***************************************************************************)
\* EvalConfig.wer_filler_words and EvalConfig.saer_lambda, by default
wer_filler_words == DEFAULT_FILLER_WORDS
saer_lambda == Rat(1, 2)

ASRMetrics(transcript, sm, semascore, saer, saer_f, saer_e, asd, asd_sim) ==
  [transcript |-> transcript, wer |-> sm.wer, wer_normalized |-> sm.wer_normalized,
   cer |-> sm.cer, mer |-> sm.mer, wip |-> sm.wip, wil |-> sm.wil,
   word_accuracy |-> sm.word_accuracy, semascore |-> semascore, saer |-> saer,
   saer_f_form |-> saer_f, saer_epsilon_sem |-> saer_e, asd |-> asd,
   asd_similarity |-> asd_sim]

\* Python's truth value of a str | None argument
Truthy(text_arg) == text_arg # None /\ (CHOOSE t \in text_arg : TRUE) # <<>>
TextOf(text_arg) == CHOOSE t \in text_arg : TRUE

\* An outcome of one metric function, as _run_asr sees it
Seen(o) == [status |-> o.status, exc |-> o.exc, val |-> o.val, cache |-> o.cache]
NotCalled(cache) == [status |-> "not_called", exc |-> "", val |-> <<>>, cache |-> cache]

\* lines 236-254: the string metrics, their warning and how the call ended
run_asr_string_metrics(transcript, gt_text, jiwer_ok) ==
  LET zeros == StringMetrics(Some(Zero), Some(Zero), Some(Zero), Some(Zero), Some(Zero),
                             Some(Zero), Some(Zero))
  IN  IF ~Truthy(gt_text)
      THEN {[status |-> "not_called", exc |-> "", sm |-> zeros, warnings |-> <<>>]}
      ELSE {IF o.status = "ok"
            THEN [status |-> "ok", exc |-> "",
                  sm |-> StringMetrics(Some(o.val.wer), Some(o.val.wer_normalized),
                                       Some(o.val.cer), Some(o.val.mer), Some(o.val.wip),
                                       Some(o.val.wil), Some(o.val.word_accuracy)),
                  warnings |-> <<>>]
            ELSE IF o.exc = "MissingDependencyError"
            THEN [status |-> "raise", exc |-> o.exc, sm |-> zeros,
                  warnings |-> <<"String metrics skipped">>]
            ELSE [status |-> "propagates", exc |-> o.exc, sm |-> zeros, warnings |-> <<>>] :
              o \in calculate_string_metrics(transcript, TextOf(gt_text),
                                             Some(wer_filler_words), jiwer_ok)}

\* line 285: the outcomes of calculate_asd(transcript, gt_text, device=device)
run_asr_asd(transcript, gt, device, bert_cache) ==
  UNION {UNION {{Seen(calculate_asd(transcript, gt, device, bert_cache, behaviour,
                                    ref_emb, hyp_emb)) :
                   hyp_emb \in TokenArraysFor(transcript, gt, device, bert_cache, behaviour,
                                              TokenArraysUpTo(MaxTokens - 1))} :
                ref_emb \in TokenArraysFor(transcript, gt, device, bert_cache, behaviour,
                                           TokenArraysUpTo(MaxTokens - 1))} :
           behaviour \in BertBehavioursFor(device, bert_cache)}

\* lines 257-290: SeMaScore, then SAER, then ASD, each in its own try
run_asr_semantic(transcript, gt_text, device, labse_cache, bert_cache, jiwer_ok) ==
  IF ~(Truthy(gt_text) /\ transcript # <<>>)
  THEN {[semascore |-> NotCalled(bert_cache), saer |-> NotCalled(labse_cache),
         asd |-> NotCalled(bert_cache)]}
  ELSE LET gt == TextOf(gt_text)
           semascores == {Seen(o) : o \in calculate_semascore(transcript, gt, device,
                                                              bert_cache, jiwer_ok)}
           saers == {Seen(o) : o \in calculate_saer(transcript, gt, saer_lambda, device,
                                                    labse_cache, jiwer_ok)}
       IN  UNION {{[semascore |-> s, saer |-> a, asd |-> d] :
                     a \in saers, d \in run_asr_asd(transcript, gt, device, s.cache)} :
                  s \in semascores}

\* The warning of a metric whose try block caught an exception
SkippedWarning(o, name) == IF o.status = "raise" THEN <<name>> ELSE <<>>
FieldOf(o, v) == IF o.status = "ok" THEN Some(v) ELSE None

\* The possible outcomes of _run_asr(audio_path, gt_text, device, warnings):
\* the value returned (None or Some(ASRMetrics)), the warnings appended, the
\* caches afterwards and how each metric function ended.
_run_asr(transcription, gt_text, device, labse_cache, bert_cache, jiwer_ok) ==
  LET transcript == IF transcription.status = "ok" THEN transcription.text ELSE <<>>
      first == IF transcription.status = "MissingDependencyError"
               THEN <<"Transcription skipped">> ELSE <<>>
      none(ws, ends) == [val |-> None, warnings |-> ws, labse_cache |-> labse_cache,
                         bert_cache |-> bert_cache, ends |-> ends]
      no_ends == [string_metrics |-> "not_called", semascore |-> "not_called",
                  saer |-> "not_called", asd |-> "not_called"]
  IN  IF transcription.status = "Exception"
      THEN {none(<<"ASR evaluation failed">>, no_ends)}
      ELSE IF transcription.status = "MissingDependencyError" /\ gt_text = None
      THEN {none(first \o <<"ASR skipped">>, no_ends)}
      ELSE UNION {
        IF m.status = "propagates"
        THEN {none(first \o <<"ASR evaluation failed">>,
                   [no_ends EXCEPT !.string_metrics = "raise"])}
        ELSE {[val |-> Some(ASRMetrics(
                         transcript, m.sm,
                         FieldOf(x.semascore, x.semascore.val),
                         IF x.saer.status = "ok" THEN Some(x.saer.val.saer) ELSE None,
                         IF x.saer.status = "ok" THEN Some(x.saer.val.f_form) ELSE None,
                         IF x.saer.status = "ok" THEN Some(x.saer.val.epsilon_sem) ELSE None,
                         IF x.asd.status = "ok" THEN Some(x.asd.val.asd) ELSE None,
                         IF x.asd.status = "ok" THEN Some(x.asd.val.asd_similarity)
                         ELSE None)),
               warnings |-> first \o m.warnings
                              \o SkippedWarning(x.semascore, "SeMaScore skipped")
                              \o SkippedWarning(x.saer, "SAER skipped")
                              \o SkippedWarning(x.asd, "ASD skipped"),
               labse_cache |-> x.saer.cache,
               bert_cache |-> x.asd.cache,
               ends |-> [string_metrics |-> m.status, semascore |-> x.semascore.status,
                         saer |-> x.saer.status, asd |-> x.asd.status]] :
                x \in run_asr_semantic(transcript, gt_text, device, labse_cache,
                                       bert_cache, jiwer_ok)}
        : m \in run_asr_string_metrics(transcript, gt_text, jiwer_ok)}

\* What the transcription does, and the ground truth the caller has
Transcriptions ==
  {[status |-> "ok", text |-> t] : t \in BriefTexts}
    \cup {[status |-> e, text |-> <<>>] : e \in {"MissingDependencyError", "Exception"}}
GroundTruths == {None} \cup {Some(t) : t \in BriefTexts}
AsrDevices == {"cpu"}

CallRunAsr ==
  /\ pc = "idle"
  /\ \E tr \in Transcriptions, gt \in GroundTruths, dev \in AsrDevices :
       \E o \in _run_asr(tr, gt, dev, _labse_cache, _bert_cache, jiwer_installed) :
         /\ call' = [fn |-> "_run_asr", transcription |-> tr, gt_text |-> gt,
                     device |-> dev]
         /\ ret' = [status |-> "ok", exc |-> "", val |-> o.val]
         /\ trace' = <<>>
         /\ embedded' = <<>>
         /\ locals' = [path |-> "run_asr", warnings |-> o.warnings, ends |-> o.ends]
         /\ _labse_cache' = o.labse_cache
         /\ _bert_cache' = o.bert_cache
         /\ pc' = "done"
  /\ UNCHANGED jiwer_installed

NextAsr == CallRunAsr \/ Return

SpecAsr == Init /\ [][NextAsr]_vars

(***************************************************************************)
(* Properties of _run_asr                                                  *)
(***************************************************************************)
Warned(name) == \E k \in 1..Len(locals.warnings) : locals.warnings[k] = name
StringMetricFields == {"wer", "cer", "mer", "wip", "wil", "word_accuracy"}

\* The value of a field is one that calculate_string_metrics produces on the
\* transcript and the ground truth of the call
ProducedByStringMetrics(m, f) ==
  /\ Truthy(call.gt_text)
  /\ \E o \in calculate_string_metrics(m.transcript, TextOf(call.gt_text),
                                       Some(wer_filler_words), jiwer_installed) :
       o.status = "ok" /\ m[f] = Some(o.val[f])

\* C30: in _run_asr a metric that could not be computed is never reported
\* as a number: when the computation of the string metrics, of SeMaScore,
\* of SAER or of ASD fails, the fields of that metric in the returned
\* ASRMetrics are None and a warning tells it; and a numeric wer, cer, mer,
\* wip, wil or word_accuracy that is returned is a value produced by
\* calculate_string_metrics.
C30_FailedMetricNeverANumber ==
  (Done("_run_asr") /\ ret.val # None) =>
    LET m == CHOOSE x \in ret.val : TRUE
    IN  /\ locals.ends.string_metrics = "raise"
             => /\ Warned("String metrics skipped")
                /\ \A f \in StringMetricFields \cup {"wer_normalized"} : m[f] = None
        /\ locals.ends.semascore = "raise"
             => Warned("SeMaScore skipped") /\ m.semascore = None
        /\ locals.ends.saer = "raise"
             => /\ Warned("SAER skipped")
                /\ m.saer = None /\ m.saer_f_form = None /\ m.saer_epsilon_sem = None
        /\ locals.ends.asd = "raise"
             => Warned("ASD skipped") /\ m.asd = None /\ m.asd_similarity = None
        /\ \A f \in StringMetricFields : m[f] # None => ProducedByStringMetrics(m, f)

\* The part of C30 about SeMaScore, SAER and ASD
SemanticFailuresReportedAsNone ==
  (Done("_run_asr") /\ ret.val # None) =>
    LET m == CHOOSE x \in ret.val : TRUE
    IN  /\ locals.ends.semascore = "raise"
             => Warned("SeMaScore skipped") /\ m.semascore = None
        /\ locals.ends.saer = "raise"
             => /\ Warned("SAER skipped")
                /\ m.saer = None /\ m.saer_f_form = None /\ m.saer_epsilon_sem = None
        /\ locals.ends.asd = "raise"
             => Warned("ASD skipped") /\ m.asd = None /\ m.asd_similarity = None

\* The string metrics failed for want of jiwer and are reported as 0.0
StringMetricsFailedReportedZero ==
  /\ Done("_run_asr") /\ ret.val # None
  /\ locals.ends.string_metrics = "raise"
  /\ (CHOOSE x \in ret.val : TRUE).wer = Some(Zero)
  /\ (CHOOSE x \in ret.val : TRUE).word_accuracy = Some(Zero)
====
